---------------------------- MODULE Spec2Model ----------------------------
(***************************************************************************)
(* Metadata & Artwork Resolution Engine of side-a-vinyl-collector.         *)
(*                                                                         *)
(* The module holds one state machine per component, each with its own     *)
(* specification over the shared variables:                                *)
(*   SpecRL      the request throttle (utils/rateLimit.ts)                 *)
(*   FairSpecRL  the same, with the event loop's fairness                  *)
(*   SpecVision  the vision resolution protocol (services/vision.ts)       *)
(*   SpecClient  the provider clients' cache-aside calls                   *)
(*   SpecCredentials  the same, with DISCOGS_TOKEN set or unset            *)
(*   SpecSearch  the candidate merge of search (searchController.ts)       *)
(*   SpecAlbum   the album store and its artwork (albumController.ts,      *)
(*               coverArtController.ts)                                    *)
(*   SpecTx      concurrent add requests, statement by statement           *)
(*   SpecManage  add, delete, list and the cover-art candidate search     *)
(***************************************************************************)
EXTENDS Integers, Sequences, FiniteSets, TLC

None == <<"none">>

(***************************************************************************)
(* Request throttle: backend/src/utils/rateLimit.ts                        *)
(***************************************************************************)

\* Number of execute() calls one run of the throttle model makes.
MaxTasks == 3

\* this.minInterval = 60000 / requestsPerMinute, in clock ticks of the model.
minInterval == 2

TaskIds == 1..MaxTasks

VARIABLES
    queue,        \* RateLimiter.queue: the pending items, oldest first
    processing,   \* RateLimiter.processing
    wpc,          \* where the processQueue loop is: "idle", "running", "sleeping"
    item,         \* the item processQueue shifted and is awaiting (0: none)
    submitted,    \* number of execute() calls made so far; call k submits task k
    fnResult,     \* what each task's fn settled with: None, <<"ok", k>>, <<"err", k>>
    promise,      \* what each caller's promise settled with
    started,      \* the tasks in the order their fn was invoked
    finishedAtStart, \* per task: the set of tasks already settled when it started
    sinceStart,   \* ticks since the last fn invocation, saturating at minInterval
    slept,        \* ticks since the inter-call setTimeout was armed, saturating
    lastGap,      \* sinceStart as read when the latest task started
    overlap       \* TRUE once a fn was invoked while the loop was running or sleeping

rlVars == <<queue, processing, wpc, item, submitted, fnResult, promise, started,
            finishedAtStart, sinceStart, slept, lastGap, overlap>>

VARIABLES
    vcfg,        \* the constructed VisionService: primaryProvider, fallbackProvider,
                 \* minConfidence (minConfidenceNaN: parseInt gave NaN)
    vpc,         \* where extractAlbumInfo is: "idle", "primary", "fallbackLow",
                 \* "fallbackCatch", "done"
    vimage,      \* compressedImage of the call
    vcalls,      \* the provider invocations made, in order: <<provider, image>>
    vreplies,    \* what each invocation came back with, in order
    vprimary,    \* result of the primary provider while the fallback is awaited
    vout         \* what extractAlbumInfo returned or threw

visionVars == <<vcfg, vpc, vimage, vcalls, vreplies, vprimary, vout>>

VARIABLES
    cache,       \* the Redis store: key -> Absent, <<"json", value>> or <<"corrupt">>
    enabled,     \* MusicBrainzService.enabled
    token,       \* DISCOGS_TOKEN was set when DiscogsService was constructed
    cpc,         \* where the client call is: "idle", "get", "provider", "set",
                 \* "rgGet", "rgTransport", "rgSet", "done"
    cop,         \* the client method called
    carg,        \* its argument
    cheld,       \* what the store held under the call's key when it was read
    cgot,        \* what getCached returned to the method
    creply,      \* the provider's reply to the method's own request
    crg,         \* the nested getReleaseGroupCoverArt: its reply and result
    cval,        \* the value the method is about to cache and return
    clog,        \* what the call did: executes, transports, cache reads,
                 \* failed gets, failed sets
    cout,        \* what the method returned or threw
    ncalls       \* number of client calls made so far

clientVars == <<cache, enabled, token, cpc, cop, carg, cheld, cgot, creply, crg, cval,
                clog, cout, ncalls>>

VARIABLES
    spc,         \* where search is: "idle", "mbArtist", "mbGroups", "dArtist",
                 \* "dReleases", "dQuery", "done"
    mbEnabled,   \* musicbrainzService.isEnabled()
    local,       \* rows of the local collection query
    mbResults,   \* the open-metadata candidates
    artistReleases,  \* the catalogue provider's artist-level candidates
    generalResults,  \* the catalogue provider's free-text candidates
    discogsResults,  \* mergedDiscogs
    externalResults, \* what the response carries under "discogs"
    sfailed      \* TRUE when the try block of search was left by an exception

searchVars == <<spc, mbEnabled, local, mbResults, artistReleases, generalResults,
                discogsResults, externalResults, sfailed>>

VARIABLES
    artists,     \* table artists: the names, by id
    albums,      \* table albums: the rows, by id
    collections, \* table collections: the album ids that are members
    barcodes,    \* table barcodes: pairs <<barcode, album id>>
    files,       \* the files of the cover-art storage directory
    req,         \* the HTTP request being handled (op "none": none)
    tasks,       \* the background artwork tasks, in the order they were started
    resp,        \* the response to the last request that was answered
    nreqs        \* number of requests made so far

albumVars == <<artists, albums, collections, barcodes, files, req, tasks, resp,
               nreqs>>

VARIABLES
    pg,          \* the tables as concurrent transactions see them
    conn         \* the add request of each database connection

txVars == <<pg, conn>>

vars == <<rlVars, visionVars, clientVars, searchVars, albumVars, txVars>>

\* What the actions of one component leave alone.
notRL == <<visionVars, clientVars, searchVars, albumVars, txVars>>

notVision == <<rlVars, clientVars, searchVars, albumVars, txVars>>

notClient == <<rlVars, visionVars, searchVars, albumVars, txVars>>

notSearch == <<rlVars, visionVars, clientVars, albumVars, txVars>>

notAlbum == <<rlVars, visionVars, clientVars, searchVars, txVars>>

notTx == <<rlVars, visionVars, clientVars, searchVars, albumVars>>

Settled(t) == promise[t] # None

SettledSet == {t \in TaskIds : Settled(t)}

\* The saturating clock step shared by both timers.
Sat(n) == IF n < minInterval THEN n + 1 ELSE minInterval

RLInit ==
    /\ queue = << >>
    /\ processing = FALSE
    /\ wpc = "idle"
    /\ item = 0
    /\ submitted = 0
    /\ fnResult = [t \in TaskIds |-> None]
    /\ promise = [t \in TaskIds |-> None]
    /\ started = << >>
    /\ finishedAtStart = [t \in TaskIds |-> {}]
    /\ sinceStart = minInterval
    /\ slept = 0
    /\ lastGap = minInterval
    /\ overlap = FALSE

\* The loop taking the newest item (pop) instead of the oldest (shift).
ShiftAndInvokeNewest(q) ==
    /\ item' = q[Len(q)]
    /\ queue' = SubSeq(q, 1, Len(q) - 1)
    /\ wpc' = "running"
    /\ started' = Append(started, q[Len(q)])
    /\ finishedAtStart' = [finishedAtStart EXCEPT ![q[Len(q)]] = SettledSet]
    /\ lastGap' = sinceStart
    /\ sinceStart' = 0
    /\ overlap' = (overlap \/ wpc = "running")

\* Lines 32-35: const item = this.queue.shift()!; await item.fn() -- the loop
\* takes the head of q and invokes its fn.  q is the queue as the loop sees it.
ShiftAndInvoke(q) ==
    /\ item' = Head(q)
    /\ queue' = Tail(q)
    /\ wpc' = "running"
    /\ started' = Append(started, Head(q))
    /\ finishedAtStart' = [finishedAtStart EXCEPT ![Head(q)] = SettledSet]
    /\ lastGap' = sinceStart
    /\ sinceStart' = 0
    /\ overlap' = (overlap \/ wpc = "running")

\* processQueue without the test of the flag: every execute() starts a loop.
ProcessQueueEntryUnguarded(q) ==
    IF Len(q) = 0
    THEN /\ queue' = q
         /\ UNCHANGED <<processing, wpc, item, started, finishedAtStart,
                        lastGap, sinceStart, overlap>>
    ELSE /\ processing' = TRUE
         /\ ShiftAndInvoke(q)

\* Lines 24-29 then the first loop iteration: processQueue as entered from
\* execute(), with q the queue after the push.
ProcessQueueEntry(q) ==
    IF processing \/ Len(q) = 0
    THEN /\ queue' = q
         /\ UNCHANGED <<processing, wpc, item, started, finishedAtStart,
                        lastGap, sinceStart, overlap>>
    ELSE /\ processing' = TRUE
         /\ ShiftAndInvoke(q)

\* Lines 17-22: execute(fn) pushes the item and calls processQueue().
Execute ==
    /\ submitted < MaxTasks
    /\ submitted' = submitted + 1
    /\ ProcessQueueEntry(Append(queue, submitted + 1))
    /\ UNCHANGED <<fnResult, promise, slept>>
    /\ UNCHANGED notRL

\* Lines 36-38: the caller's promise takes the fn's own result or error.
SettlePromise(t, r) ==
    promise' = [promise EXCEPT ![t] =
                   IF r[1] = "ok" THEN <<"resolved", r>> ELSE <<"rejected", r>>]

\* The loop left without line 47: the flag stays set.
LoopExitFlagKept(q) ==
    /\ wpc' = "idle"
    /\ UNCHANGED processing

\* Lines 31 and 47: the while test fails on the queue q and processQueue
\* returns.
LoopExit(q) ==
    /\ wpc' = "idle"
    /\ processing' = FALSE

\* The loop without its try/catch: a rejection escapes processQueue, which
\* ends with the flag still set.
AfterItemUncaught ==
    IF promise'[item][1] = "rejected"
    THEN /\ wpc' = "idle"
         /\ UNCHANGED <<processing, slept>>
    ELSE IF Len(queue) > 0
         THEN /\ wpc' = "sleeping"
              /\ slept' = 0
              /\ UNCHANGED processing
         ELSE /\ wpc' = "idle"
              /\ processing' = FALSE
              /\ UNCHANGED slept

\* Lines 41-47 after the try/catch: sleep if more is queued, else leave the
\* loop and clear the flag.
AfterItem ==
    IF Len(queue) > 0
    THEN /\ wpc' = "sleeping"
         /\ slept' = 0
         /\ UNCHANGED processing
    ELSE /\ LoopExit(queue)
         /\ UNCHANGED slept

\* Lines 34-47: the awaited fn settles (resolves or throws); the loop resumes.
TaskSettle ==
    /\ wpc = "running"
    /\ \E kind \in {"ok", "err"} :
          /\ fnResult' = [fnResult EXCEPT ![item] = <<kind, item>>]
          /\ SettlePromise(item, <<kind, item>>)
    /\ AfterItem
    /\ item' = 0
    /\ UNCHANGED <<queue, submitted, started, finishedAtStart, sinceStart,
                   lastGap, overlap>>
    /\ UNCHANGED notRL

\* Line 43 and back to line 31: the setTimeout fires after minInterval and the
\* while loop tests the queue again.
Wake ==
    /\ wpc = "sleeping"
    /\ slept >= minInterval
    /\ IF Len(queue) > 0
       THEN /\ ShiftAndInvoke(queue)
            /\ UNCHANGED processing
       ELSE /\ wpc' = "idle"
            /\ processing' = FALSE
            /\ UNCHANGED <<queue, item, started, finishedAtStart, lastGap,
                           sinceStart, overlap>>
    /\ UNCHANGED <<submitted, fnResult, promise, slept>>
    /\ UNCHANGED notRL

\* One tick of wall-clock time.
Tick ==
    /\ sinceStart' = Sat(sinceStart)
    /\ slept' = IF wpc = "sleeping" THEN Sat(slept) ELSE slept
    /\ UNCHANGED <<queue, processing, wpc, item, submitted, fnResult, promise,
                   started, finishedAtStart, lastGap, overlap>>
    /\ UNCHANGED notRL

RLNext == Execute \/ TaskSettle \/ Wake \/ Tick

(***************************************************************************)
(* Vision resolution protocol: backend/src/services/vision.ts              *)
(***************************************************************************)

\* Confidences and thresholds range over a grid of ConfGrid + 1 points of
\* 0..100 that always holds 0 and 100.
ConfGrid == 10

\* parseInt(process.env.VISION_MIN_CONFIDENCE || '90', 10)
DefaultMinConfidence == 90

ConfValues == {(100 * i) \div ConfGrid : i \in 0..ConfGrid}

Providers == {"openai", "anthropic"}

NoProvider == "null"

\* process.env.VISION_MIN_CONFIDENCE as the constructor may find it.
ThresholdEnvs ==
    {<<"unset">>, <<"nan">>} \cup {<<"int", v>> : v \in ConfValues \cup {-1, 101}}

\* Lines 24-29: the threshold; out-of-range values fall back to 90, NaN passes
\* both range tests and is kept.
MinConfidenceOf(env) ==
    IF env[1] = "unset" THEN [nan |-> FALSE, v |-> DefaultMinConfidence]
    ELSE IF env[1] = "nan" THEN [nan |-> TRUE, v |-> 0]
    ELSE IF env[2] < 0 \/ env[2] > 100 THEN [nan |-> FALSE, v |-> DefaultMinConfidence]
    ELSE [nan |-> FALSE, v |-> env[2]]

\* Lines 31-52: primary and fallback provider from VISION_PROVIDER and the keys.
ProvidersOf(configured, openaiKey, anthropicKey) ==
    IF configured = "openai" /\ openaiKey
    THEN <<"openai", IF anthropicKey THEN "anthropic" ELSE NoProvider>>
    ELSE IF configured = "anthropic" /\ anthropicKey
    THEN <<"anthropic", IF openaiKey THEN "openai" ELSE NoProvider>>
    ELSE IF openaiKey
    THEN <<"openai", IF anthropicKey THEN "anthropic" ELSE NoProvider>>
    ELSE IF anthropicKey
    THEN <<"anthropic", NoProvider>>
    ELSE <<"openai", NoProvider>>

\* Lines 17-61: new VisionService().
Construct(configured, openaiKey, anthropicKey, env) ==
    [primaryProvider |-> ProvidersOf(configured, openaiKey, anthropicKey)[1],
     fallbackProvider |-> ProvidersOf(configured, openaiKey, anthropicKey)[2],
     minConfidence |-> MinConfidenceOf(env).v,
     minConfidenceNaN |-> MinConfidenceOf(env).nan]

VisionInit ==
    /\ \E configured \in Providers \cup {"unset"} :
       \E openaiKey \in BOOLEAN : \E anthropicKey \in BOOLEAN :
       \E env \in ThresholdEnvs :
          vcfg = Construct(configured, openaiKey, anthropicKey, env)
    /\ vpc = "idle"
    /\ vimage = None
    /\ vcalls = << >>
    /\ vreplies = << >>
    /\ vprimary = None
    /\ vout = None

\* What a provider API call can come back with: a transport/API error, no
\* content, text without a JSON object, a JSON object without a confidence,
\* or a JSON object with one.
Replies ==
    {<<"apiError">>, <<"noContent">>, <<"noJson">>, <<"jsonNoConfidence">>}
        \cup {<<"json", c>> : c \in ConfValues}

\* Lines 196-267 and 269-362: extractWithOpenAI / extractWithAnthropic on one
\* reply.  Every failure is rethrown as the provider's own Error; a missing
\* confidence becomes 0.
ExtractWithProvider(provider, reply) ==
    IF reply[1] \in {"apiError", "noContent", "noJson"}
    THEN <<"throw", provider>>
    ELSE <<"ok", IF reply[1] = "json" THEN reply[2] ELSE 0>>

\* Lines 67-124: compressImage returns the image as it is or re-encoded; it
\* never throws.
CompressImage(image) == {<<image, "asIs">>, <<image, "compressed">>}

VResult(provider, confidence, usedFallback, other) ==
    [provider |-> provider, confidence |-> confidence,
     usedFallback |-> usedFallback, primaryResult |-> other]

Summary(r) == [provider |-> r.provider, confidence |-> r.confidence]

\* Line 136: result.confidence && result.confidence >= this.minConfidence
MeetsThreshold(confidence) ==
    /\ confidence # 0
    /\ ~vcfg.minConfidenceNaN
    /\ confidence >= vcfg.minConfidence

\* Lines 163-171 dropped: the primary's result wins without the fallback's
\* attached.
PickBestNoAlternate(result, fallbackResult) ==
    IF fallbackResult.confidence # 0 /\ fallbackResult.confidence > result.confidence
    THEN fallbackResult
    ELSE result

\* Lines 157-174 with >= for >: a tie goes to the fallback.
PickBestTieToFallback(result, fallbackResult) ==
    IF fallbackResult.confidence # 0 /\ fallbackResult.confidence >= result.confidence
    THEN fallbackResult
    ELSE [result EXCEPT !.primaryResult = Summary(fallbackResult)]

\* Lines 157-174: the fallback's result when its confidence is strictly
\* higher, else the primary's with the fallback's attached.
PickBest(result, fallbackResult) ==
    IF fallbackResult.confidence # 0 /\ fallbackResult.confidence > result.confidence
    THEN fallbackResult
    ELSE [result EXCEPT !.primaryResult = Summary(fallbackResult)]

\* Lines 179-182 without line 181.
CatchResultUnmarked(confidence) ==
    VResult(vcfg.fallbackProvider, confidence, FALSE, None)

\* Lines 179-182: the fallback's result as the catch block returns it.
CatchResult(confidence) ==
    VResult(vcfg.fallbackProvider, confidence, TRUE, None)

Invoke(provider, image) == vcalls' = Append(vcalls, <<provider, image>>)

\* Lines 126-131: the call compresses the image and invokes the primary.
VStart ==
    /\ vpc = "idle"
    /\ \E img \in CompressImage("image") :
          /\ vimage' = img
          /\ Invoke(vcfg.primaryProvider, img)
    /\ vpc' = "primary"
    /\ UNCHANGED <<vcfg, vreplies, vprimary, vout>>
    /\ UNCHANGED notVision

\* Lines 175-185: the catch block, entered with the error e.
Catch(e) ==
    IF vcfg.fallbackProvider # NoProvider
    THEN /\ Invoke(vcfg.fallbackProvider, vimage)
         /\ vpc' = "fallbackCatch"
         /\ UNCHANGED vout
    ELSE /\ vpc' = "done"
         /\ vout' = e
         /\ UNCHANGED vcalls

\* Lines 131-144 and 174: the primary provider's call comes back.
VPrimaryReturns ==
    /\ vpc = "primary"
    /\ \E reply \in Replies :
       LET x == ExtractWithProvider(vcfg.primaryProvider, reply)
           result == VResult(vcfg.primaryProvider, x[2], FALSE, None)
       IN /\ vreplies' = Append(vreplies, reply)
          /\ IF x[1] = "throw"
             THEN Catch(x) /\ UNCHANGED vprimary
             ELSE IF MeetsThreshold(x[2])
             THEN /\ vpc' = "done"
                  /\ vout' = <<"return", result>>
                  /\ UNCHANGED <<vcalls, vprimary>>
             ELSE IF vcfg.fallbackProvider # NoProvider
             THEN /\ Invoke(vcfg.fallbackProvider, vimage)
                  /\ vpc' = "fallbackLow"
                  /\ vprimary' = result
                  /\ UNCHANGED vout
             ELSE /\ vpc' = "done"
                  /\ vout' = <<"return", result>>
                  /\ UNCHANGED <<vcalls, vprimary>>
    /\ UNCHANGED <<vcfg, vimage>>
    /\ UNCHANGED notVision

\* Lines 144-174: the fallback invoked after a low-confidence primary result
\* comes back; its throw lands in the catch block of line 175.
VFallbackLowReturns ==
    /\ vpc = "fallbackLow"
    /\ \E reply \in Replies :
       LET x == ExtractWithProvider(vcfg.fallbackProvider, reply)
           fallbackResult ==
               VResult(vcfg.fallbackProvider, x[2], TRUE, Summary(vprimary))
       IN /\ vreplies' = Append(vreplies, reply)
          /\ IF x[1] = "throw"
             THEN Catch(x)
             ELSE /\ vpc' = "done"
                  /\ vout' = <<"return", PickBest(vprimary, fallbackResult)>>
                  /\ UNCHANGED vcalls
    /\ UNCHANGED <<vcfg, vimage, vprimary>>
    /\ UNCHANGED notVision

\* Lines 179-182: the fallback invoked from the catch block comes back; its
\* throw leaves extractAlbumInfo.
VFallbackCatchReturns ==
    /\ vpc = "fallbackCatch"
    /\ \E reply \in Replies :
       LET x == ExtractWithProvider(vcfg.fallbackProvider, reply)
       IN /\ vreplies' = Append(vreplies, reply)
          /\ vout' = IF x[1] = "throw" THEN x ELSE <<"return", CatchResult(x[2])>>
    /\ vpc' = "done"
    /\ UNCHANGED <<vcfg, vimage, vcalls, vprimary>>
    /\ UNCHANGED notVision

VisionNext ==
    VStart \/ VPrimaryReturns \/ VFallbackLowReturns \/ VFallbackCatchReturns

(***************************************************************************)
(* Provider clients and their cache-aside layer: services/discogs.ts       *)
(* (unnamed/part_005) and backend/src/services/musicbrainz.ts              *)
(***************************************************************************)

\* Client calls made in one run.
MaxCalls == 2

\* Versions of a provider's data: a later fetch may see newer data than the
\* cache holds.
MaxVersion == 2

\* The argument the methods are called with (a barcode, a query, an id); the
\* cache keys of different methods differ by their prefix.
Args == {1}

Versions == 1..MaxVersion

DiscogsOps == {"searchByBarcode", "searchByQuery", "getRelease"}

MbOps == {"searchRelease", "getCoverArt", "searchArtist",
          "getArtistReleaseGroups", "getReleaseGroupCoverArt"}

ClientOps == DiscogsOps \cup MbOps

\* `${cachePrefix}:${operation}:${arguments}`
CacheKey(op, arg) == <<op, arg>>

CacheKeys == {CacheKey(op, arg) : op \in ClientOps, arg \in Args}

Absent == <<"absent">>

NullResult == <<"null">>

EmptyList == <<"[]">>

\* The provider's parsed answer.
Val(op, arg, ver) == <<"val", op, arg, ver>>

\* The album list of getArtistReleaseGroups: one release group with its cover.
Albums(arg, ver, cover) == <<"albums", arg, ver, cover>>

\* musicbrainz.ts lines 121, 162, 311, 346: the methods that test this.enabled
\* before anything else.
ChecksEnabled(op) ==
    op \in {"searchRelease", "getCoverArt", "searchArtist", "getArtistReleaseGroups"}

\* What a disabled client returns.
DisabledResult(op) == IF op = "getArtistReleaseGroups" THEN EmptyList ELSE NullResult

\* The methods whose request is a task of the rate limiter; the Cover Art
\* Archive client is called directly (musicbrainz.ts lines 171-172, 433).
Throttled(op) == op \notin {"getCoverArt", "getReleaseGroupCoverArt"}

\* The catch block of each method: the two Discogs searches throw a new
\* Error, every other method returns its empty value.
ErrorResult(op) ==
    IF op \in {"searchByBarcode", "searchByQuery"} THEN <<"throw", <<op>>>>
    ELSE IF op = "getArtistReleaseGroups" THEN <<"return", EmptyList>>
    ELSE <<"return", NullResult>>

\* part_005 lines 13-23: without a token the requests carry no Authorization
\* header, and the Discogs API "will not work": it refuses the searches.
Refused(op) == ~token /\ op \in {"searchByBarcode", "searchByQuery"}

\* What a provider request can come back with.
RepliesOf(op) ==
    IF Refused(op) THEN {<<"error">>}
    ELSE {<<"error">>} \cup {<<"data", v>> : v \in Versions}
            \cup (IF op = "getRelease" THEN {} ELSE {<<"empty">>})
            \cup (IF op = "getArtistReleaseGroups" THEN {<<"noGroups">>} ELSE {})

\* What each method does with a reply: write a value through the cache and
\* return it, return without caching, or (release groups) look up the covers.
Outcome(op, arg, reply) ==
    IF reply[1] = "error" THEN ErrorResult(op)
    ELSE IF reply[1] = "data"
    THEN IF op = "getArtistReleaseGroups" THEN <<"nested", reply[2]>>
         ELSE <<"cache", Val(op, arg, reply[2])>>
    ELSE IF reply[1] = "noGroups" THEN <<"cache", EmptyList>>
    ELSE IF op = "searchByQuery" THEN <<"cache", EmptyList>>
    ELSE IF op = "getArtistReleaseGroups" THEN <<"return", EmptyList>>
    ELSE <<"return", NullResult>>

\* getCached with no try/catch around the read and the parse.
GetCachedUncaught(stored, redisOk) ==
    IF ~redisOk THEN <<"throw", <<"redis">>>>
    ELSE IF stored = Absent THEN NullResult
    ELSE IF stored[1] = "corrupt" THEN <<"throw", <<"parse">>>>
    ELSE stored[2]

\* getCached (part_005 lines 31-39, musicbrainz.ts lines 95-103): the parsed
\* entry, or null when there is none, the read fails or the parse fails.
GetCached(stored, redisOk) ==
    IF ~redisOk THEN NullResult
    ELSE IF stored = Absent THEN NullResult
    ELSE IF stored[1] = "corrupt" THEN NullResult
    ELSE stored[2]

\* The hit test dropped: the method always goes on to the provider.
IsHitNever(got) == FALSE

\* `if (cached) return cached;`
IsHit(got) == got # NullResult

\* setCache with no try/catch around redis.setex.
SetCacheUncaught(redisOk) == IF redisOk THEN "stored" ELSE "throw"

\* setCache (part_005 lines 41-51, musicbrainz.ts lines 105-115).
SetCache(redisOk) == IF redisOk THEN "stored" ELSE "noop"

NoLog == [executes |-> 0, transports |-> 0, reads |-> 0, getFailed |-> FALSE,
          setFailed |-> FALSE, rgGetFailed |-> FALSE, rgSetFailed |-> FALSE]

NoRg == [hit |-> FALSE, reply |-> None, cover |-> NullResult]

ClientInit ==
    /\ cache = [k \in CacheKeys |-> Absent]
    /\ enabled \in BOOLEAN
    /\ token \in BOOLEAN
    /\ cpc = "idle"
    /\ cop = "none"
    /\ carg = 0
    /\ cheld = Absent
    /\ cgot = None
    /\ creply = None
    /\ crg = NoRg
    /\ cval = None
    /\ clog = NoLog
    /\ cout = None
    /\ ncalls = 0

Finish(out) == cpc' = "done" /\ cout' = out

\* A client method is called: the enabled test, then the cache read is issued.
CallBegin ==
    /\ cpc \in {"idle", "done"}
    /\ ncalls < MaxCalls
    /\ ncalls' = ncalls + 1
    /\ \E op \in ClientOps : \E arg \in Args :
          /\ cop' = op
          /\ carg' = arg
          /\ cheld' = cache[CacheKey(op, arg)]
          /\ IF ChecksEnabled(op) /\ ~enabled
             THEN Finish(<<"return", DisabledResult(op)>>)
             ELSE cpc' = "get" /\ cout' = None
    /\ cgot' = None
    /\ creply' = None
    /\ crg' = NoRg
    /\ cval' = None
    /\ clog' = NoLog
    /\ UNCHANGED <<cache, enabled, token>>
    /\ UNCHANGED notClient

\* The awaited getCached comes back: a hit returns, a miss goes to the
\* provider, through the rate limiter unless the method calls the Cover Art
\* Archive.
CacheGet ==
    /\ cpc = "get"
    /\ \E redisOk \in BOOLEAN :
       LET stored == cache[CacheKey(cop, carg)]
           got == GetCached(stored, redisOk)
       IN /\ cheld' = stored
          /\ cgot' = got
          /\ IF got[1] = "throw"
             THEN /\ Finish(got)
                  /\ clog' = [clog EXCEPT !.reads = @ + 1, !.getFailed = TRUE]
             ELSE IF IsHit(got)
             THEN /\ Finish(<<"return", got>>)
                  /\ clog' = [clog EXCEPT !.reads = @ + 1]
             ELSE /\ cout' = cout
                  /\ IF Throttled(cop)
                     THEN /\ cpc' = "queued"
                          /\ clog' = [clog EXCEPT
                                 !.reads = @ + 1,
                                 !.getFailed = ~redisOk \/ stored[1] = "corrupt",
                                 !.executes = @ + 1]
                     ELSE /\ cpc' = "provider"
                          /\ clog' = [clog EXCEPT
                                 !.reads = @ + 1,
                                 !.getFailed = ~redisOk \/ stored[1] = "corrupt",
                                 !.transports = @ + 1]
    /\ UNCHANGED <<cache, enabled, token, cop, carg, creply, crg, cval, ncalls>>
    /\ UNCHANGED notClient

\* The rate limiter invokes the queued task, which sends the request.
TaskStart ==
    /\ cpc = "queued"
    /\ cpc' = "provider"
    /\ clog' = [clog EXCEPT !.transports = @ + 1]
    /\ UNCHANGED <<cache, enabled, token, cop, carg, cheld, cgot, creply, crg, cval,
                   cout, ncalls>>
    /\ UNCHANGED notClient

\* The provider's reply arrives and the method parses it.
ProviderReply ==
    /\ cpc = "provider"
    /\ \E reply \in RepliesOf(cop) :
       LET o == Outcome(cop, carg, reply)
       IN /\ creply' = reply
          /\ IF o[1] = "cache"
             THEN cpc' = "set" /\ cval' = o[2] /\ cout' = cout
             ELSE IF o[1] = "nested"
             THEN cpc' = "rgGet" /\ cval' = cval /\ cout' = cout
             ELSE Finish(o) /\ cval' = cval
    /\ UNCHANGED <<cache, enabled, token, cop, carg, cheld, cgot, crg, clog, ncalls>>
    /\ UNCHANGED notClient

\* The awaited setCache comes back and the method returns its value.
CacheSet ==
    /\ cpc = "set"
    /\ \E redisOk \in BOOLEAN :
       LET r == SetCache(redisOk)
       IN /\ cache' = IF r = "stored"
                      THEN [cache EXCEPT ![CacheKey(cop, carg)] = <<"json", cval>>]
                      ELSE cache
          /\ clog' = [clog EXCEPT !.setFailed = (r # "stored")]
          /\ Finish(IF r = "throw" THEN ErrorResult(cop) ELSE <<"return", cval>>)
    /\ UNCHANGED <<enabled, token, cop, carg, cheld, cgot, creply, crg, cval, ncalls>>
    /\ UNCHANGED notClient

RgKey == CacheKey("getReleaseGroupCoverArt", carg)

\* musicbrainz.ts lines 391-416: with the cover known, the album list is
\* built and written through the cache.
WithCover(cover) == cval' = Albums(carg, creply[2], cover) /\ cpc' = "set"

\* musicbrainz.ts lines 398-403 and 427-430: the cover lookup of the release
\* group reads the cache; a throw is swallowed by the caller's try/catch.
RgCacheGet ==
    /\ cpc = "rgGet"
    /\ \E redisOk \in BOOLEAN :
       LET stored == cache[RgKey]
           got == GetCached(stored, redisOk)
       IN IF got[1] = "throw"
          THEN /\ WithCover(NullResult)
               /\ crg' = [crg EXCEPT !.cover = NullResult]
               /\ clog' = [clog EXCEPT !.reads = @ + 1, !.rgGetFailed = TRUE]
          ELSE IF IsHit(got)
          THEN /\ WithCover(got)
               /\ crg' = [crg EXCEPT !.hit = TRUE, !.cover = got]
               /\ clog' = [clog EXCEPT !.reads = @ + 1]
          ELSE /\ cpc' = "rgTransport"
               /\ cval' = cval
               /\ crg' = crg
               /\ clog' = [clog EXCEPT
                      !.reads = @ + 1,
                      !.rgGetFailed = ~redisOk \/ stored[1] = "corrupt",
                      !.transports = @ + 1]
    /\ UNCHANGED <<cache, enabled, token, cop, carg, cheld, cgot, creply, cout, ncalls>>
    /\ UNCHANGED notClient

\* musicbrainz.ts lines 432-444: the Cover Art Archive answers the lookup.
RgTransportReply ==
    /\ cpc = "rgTransport"
    /\ \E reply \in RepliesOf("getReleaseGroupCoverArt") :
       LET o == Outcome("getReleaseGroupCoverArt", carg, reply)
       IN IF o[1] = "cache"
          THEN /\ cpc' = "rgSet"
               /\ crg' = [crg EXCEPT !.reply = reply, !.cover = o[2]]
               /\ cval' = cval
          ELSE /\ WithCover(NullResult)
               /\ crg' = [crg EXCEPT !.reply = reply, !.cover = NullResult]
    /\ UNCHANGED <<cache, enabled, token, cop, carg, cheld, cgot, creply, clog, cout,
                   ncalls>>
    /\ UNCHANGED notClient

\* musicbrainz.ts lines 437-444: the cover URL is written through the cache; a
\* throw of setCache would land in the lookup's own catch, which returns null.
RgCacheSet ==
    /\ cpc = "rgSet"
    /\ \E redisOk \in BOOLEAN :
       LET r == SetCache(redisOk)
       IN /\ cache' = IF r = "stored"
                      THEN [cache EXCEPT ![RgKey] = <<"json", crg.cover>>]
                      ELSE cache
          /\ clog' = [clog EXCEPT !.rgSetFailed = (r # "stored")]
          /\ IF r = "throw"
             THEN WithCover(NullResult) /\ crg' = [crg EXCEPT !.cover = NullResult]
             ELSE WithCover(crg.cover) /\ crg' = crg
    /\ UNCHANGED <<enabled, token, cop, carg, cheld, cgot, creply, cout, ncalls>>
    /\ UNCHANGED notClient

callVarsKept == <<cpc, cop, carg, cheld, cgot, creply, crg, cval, clog, cout, ncalls>>

\* Redis drops an entry whose TTL (cacheTTL) has run out.
Expire ==
    /\ \E k \in CacheKeys :
          /\ cache[k] # Absent
          /\ cache' = [cache EXCEPT ![k] = Absent]
    /\ UNCHANGED <<enabled, token>>
    /\ UNCHANGED callVarsKept
    /\ UNCHANGED notClient

\* A stored value becomes unparseable.
CorruptEntry ==
    /\ \E k \in CacheKeys :
          /\ cache[k] # Absent
          /\ cache[k][1] = "json"
          /\ cache' = [cache EXCEPT ![k] = <<"corrupt">>]
    /\ UNCHANGED <<enabled, token>>
    /\ UNCHANGED callVarsKept
    /\ UNCHANGED notClient

\* The process is restarted with MUSICBRAINZ_ENABLED changed (musicbrainz.ts
\* line 57); the Redis store outlives the process.
Restart ==
    /\ cpc \in {"idle", "done"}
    /\ enabled' = ~enabled
    /\ UNCHANGED token
    /\ cpc' = "idle"
    /\ cop' = "none"
    /\ carg' = 0
    /\ cheld' = Absent
    /\ cgot' = None
    /\ creply' = None
    /\ crg' = NoRg
    /\ cval' = None
    /\ clog' = NoLog
    /\ cout' = None
    /\ UNCHANGED <<cache, ncalls>>
    /\ UNCHANGED notClient

ClientNext ==
    \/ CallBegin \/ CacheGet \/ TaskStart \/ ProviderReply \/ CacheSet
    \/ RgCacheGet \/ RgTransportReply \/ RgCacheSet
    \/ Expire \/ CorruptEntry \/ Restart

(***************************************************************************)
(* Candidate merge and dedup: backend/src/controllers/searchController.ts  *)
(***************************************************************************)

\* Candidates the providers return in one search, over all their lists.
MaxCandidates == 3

\* Rows the local collection query returns.
MaxLocal == 1

\* `if (mbResults.length < 5)`
MbYieldThreshold == 5

\* `finalMerged.slice(0, 30)`
ResultCap == 30

\* Strings are sequences of characters.
LowerCase(c) == IF c = "A" THEN "a" ELSE IF c = "B" THEN "b" ELSE c

AlnumLower == {"a", "b", "0", "1"}

RECURSIVE normalize(_)
\* Line 9: str.toLowerCase().replace(/[^a-z0-9]/g, '')
normalize(str) ==
    IF str = << >> THEN << >>
    ELSE (IF LowerCase(Head(str)) \in AlnumLower THEN <<LowerCase(Head(str))>>
                                                 ELSE << >>)
             \o normalize(Tail(str))

\* Lines 106, 141: `${normalize(artist)}:${normalize(album)}`
PairKey(artist, album) == <<"key", normalize(artist) \o <<":">> \o normalize(album)>>

\* Lines 133, 136, 142: `discogs:${id}`
DiscogsKey(id) == <<"discogs", id>>

\* The release titles of the providers' catalogues, by release id: releases 1
\* and 2 differ in case and punctuation only.
Titles == << <<"a">>, <<"A", "!">>, <<"b">> >>

ReleaseIds == 1..Len(Titles)

\* A release group as getArtistReleaseGroups returns it (musicbrainz.ts lines
\* 405-412): every album carries the artist's name.
MbAlbum(i) == [mbid |-> i, id |-> 0, discogsId |-> 0, artist |-> <<"a">>,
               album |-> Titles[i]]

\* An album of the catalogue provider's artist listing; an entry without an
\* artist takes discogsArtist.title (lines 93-95).
ArtistRelease(i) == [mbid |-> 0, id |-> i, discogsId |-> i, artist |-> <<"A", " ">>,
                     album |-> Titles[i]]

\* An album as parseDiscogsRelease returns it from a free-text search
\* (part_005 lines 158-165).
GeneralResult(i) == [mbid |-> 0, id |-> i, discogsId |-> i, artist |-> <<"b">>,
                     album |-> Titles[i]]

SeqsUpTo(S, n) == UNION {[1..k -> S] : k \in 0..n}

\* Rows of the collections/albums/artists join (lines 22-44).
LocalRows ==
    {[artist_name |-> <<"a">>, title |-> t, status |-> st, discogs_id |-> d] :
        t \in {Titles[2], Titles[3]}, st \in {"collection", "wishlist"}, d \in {0, 1}}

SearchInit ==
    /\ spc = "idle"
    /\ mbEnabled \in BOOLEAN
    /\ local = << >>
    /\ mbResults = << >>
    /\ artistReleases = << >>
    /\ generalResults = << >>
    /\ discogsResults = << >>
    /\ externalResults = << >>
    /\ sfailed = FALSE

Tagged(cand, isArtistMatch, source) ==
    [mbid |-> cand.mbid, id |-> cand.id, discogsId |-> cand.discogsId,
     artist |-> cand.artist, album |-> cand.album,
     isArtistMatch |-> isArtistMatch, source |-> source]

\* addUniqueDiscogs without its test of item.id.
AddUniqueDiscogsKeyOnly(acc, cand, isArtistMatch) ==
    IF PairKey(cand.artist, cand.album) \in acc.seen THEN acc
    ELSE [seen |-> acc.seen \cup {<<"id", cand.id>>, PairKey(cand.artist, cand.album)},
          merged |-> Append(acc.merged, Tagged(cand, isArtistMatch, "discogs"))]

\* Lines 104-111: addUniqueDiscogs on the accumulator (seenDiscogs,
\* mergedDiscogs).
AddUniqueDiscogs(acc, cand, isArtistMatch) ==
    IF <<"id", cand.id>> \in acc.seen THEN acc
    ELSE IF PairKey(cand.artist, cand.album) \in acc.seen THEN acc
    ELSE [seen |-> acc.seen \cup {<<"id", cand.id>>, PairKey(cand.artist, cand.album)},
          merged |-> Append(acc.merged, Tagged(cand, isArtistMatch, "discogs"))]

RECURSIVE ForEachDiscogs(_, _, _)
\* Lines 113-114: items.forEach(r => addUniqueDiscogs(r, isArtistMatch))
ForEachDiscogs(acc, items, isArtistMatch) ==
    IF items = << >> THEN acc
    ELSE ForEachDiscogs(AddUniqueDiscogs(acc, Head(items), isArtistMatch),
                        Tail(items), isArtistMatch)

\* Lines 100-116: mergedDiscogs from the artist listing and the free-text
\* results.
MergedDiscogs(releases, general) ==
    ForEachDiscogs(ForEachDiscogs([seen |-> {}, merged |-> << >>], releases, TRUE),
                   general, FALSE).merged

\* Lines 129-138: the lookup of one membership status.
Lookup(rows, wishlist) ==
    UNION {{PairKey(rows[i].artist_name, rows[i].title)}
             \cup (IF rows[i].discogs_id # 0 THEN {DiscogsKey(rows[i].discogs_id)}
                                             ELSE {}) :
           i \in {j \in 1..Len(rows) : (rows[j].status = "wishlist") = wishlist}}

\* The lookup test by key alone.
InLookupKeyOnly(cand, lookup) == PairKey(cand.artist, cand.album) \in lookup

InLookup(cand, lookup) ==
    \/ PairKey(cand.artist, cand.album) \in lookup
    \/ (cand.discogsId # 0 /\ DiscogsKey(cand.discogsId) \in lookup)

\* Lines 140-165: addFinal on the accumulator (seenFinal, finalMerged).
AddFinal(acc, cand, rows) ==
    IF PairKey(cand.artist, cand.album) \in acc.seen THEN acc
    ELSE [seen |-> acc.seen \cup {PairKey(cand.artist, cand.album)},
          merged |-> Append(acc.merged,
                       [mbid |-> cand.mbid, id |-> cand.id,
                        discogsId |-> cand.discogsId,
                        artist |-> cand.artist, album |-> cand.album,
                        isArtistMatch |-> cand.isArtistMatch,
                        source |-> cand.source,
                        inCollection |-> InLookup(cand, Lookup(rows, FALSE)),
                        inWishlist |-> InLookup(cand, Lookup(rows, TRUE))])]

RECURSIVE ForEachFinal(_, _, _)
\* Lines 167-168: items.forEach(r => addFinal(r))
ForEachFinal(acc, items, rows) ==
    IF items = << >> THEN acc
    ELSE ForEachFinal(AddFinal(acc, Head(items), rows), Tail(items), rows)

\* Line 170: slice(0, 30)
Slice(s, n) == SubSeq(s, 1, IF Len(s) < n THEN Len(s) ELSE n)

\* Lines 119-170: the merged, tagged and truncated list.
FinalMerged(mb, discogs, rows) ==
    Slice(ForEachFinal(ForEachFinal([seen |-> {}, merged |-> << >>], mb, rows),
                       discogs, rows).merged,
          ResultCap)

\* Candidates the catalogue provider's lists may still hold in this search.
Budget == IF MaxCandidates > Len(mbResults) + Len(artistReleases)
          THEN MaxCandidates - Len(mbResults) - Len(artistReleases) ELSE 0

\* The lists getArtistReleaseGroups answers with: the short ones, and one just
\* below and one at the threshold of line 85.
MbIdLists ==
    SeqsUpTo(ReleaseIds, MaxCandidates)
        \cup {[i \in 1..n |-> ((i - 1) % Len(Titles)) + 1] :
                 n \in {MbYieldThreshold - 1, MbYieldThreshold}}

\* The catalogue provider is asked whatever the open-metadata yield.
NeedsDiscogsAlways(mb) == TRUE

\* Line 85: if (mbResults.length < 5)
NeedsDiscogs(mb) == Len(mb) < MbYieldThreshold

\* Lines 22-63: the local query answers; the artist is looked up on the
\* open-metadata provider if it is enabled, else on the catalogue provider.
SLocal ==
    /\ spc = "idle"
    /\ local' \in SeqsUpTo(LocalRows, MaxLocal)
    /\ spc' = IF mbEnabled THEN "mbArtist" ELSE "dArtist"
    /\ UNCHANGED <<mbEnabled, mbResults, artistReleases, generalResults,
                   discogsResults, externalResults, sfailed>>
    /\ UNCHANGED notSearch

\* Lines 63-67: searchArtist answers with an artist or null (it never throws).
SMbArtist ==
    /\ spc = "mbArtist"
    /\ \E found \in BOOLEAN : spc' = IF found THEN "mbGroups" ELSE "dArtist"
    /\ UNCHANGED <<mbEnabled, local, mbResults, artistReleases, generalResults,
                   discogsResults, externalResults, sfailed>>
    /\ UNCHANGED notSearch

\* Lines 67-87: getArtistReleaseGroups answers (it never throws); with five or
\* more candidates the catalogue provider is skipped.
SMbGroups ==
    /\ spc = "mbGroups"
    /\ \E ids \in MbIdLists :
       LET mb == [i \in 1..Len(ids) |-> Tagged(MbAlbum(ids[i]), TRUE, "musicbrainz")]
       IN /\ mbResults' = mb
          /\ IF NeedsDiscogs(mb)
             THEN /\ spc' = "dArtist"
                  /\ UNCHANGED <<discogsResults, externalResults>>
             ELSE /\ discogsResults' = << >>
                  /\ externalResults' = FinalMerged(mb, << >>, local)
                  /\ spc' = "done"
    /\ UNCHANGED <<mbEnabled, local, artistReleases, generalResults, sfailed>>
    /\ UNCHANGED notSearch

\* Lines 172-174: an exception of a provider call leaves externalResults
\* empty.
CatchSearch ==
    /\ sfailed' = TRUE
    /\ spc' = "done"
    /\ UNCHANGED <<artistReleases, generalResults, discogsResults, externalResults>>

\* Lines 87-92: the catalogue provider's searchArtist (its code is not among
\* the sources) answers with an artist or without one, or throws.
SDiscogsArtist ==
    /\ spc = "dArtist"
    /\ \/ /\ \E found \in BOOLEAN : spc' = IF found THEN "dReleases" ELSE "dQuery"
          /\ UNCHANGED <<artistReleases, generalResults, discogsResults,
                         externalResults, sfailed>>
       \/ CatchSearch
    /\ UNCHANGED <<mbEnabled, local, mbResults>>
    /\ UNCHANGED notSearch

\* Lines 92-98: getArtistReleases (its code is not among the sources) answers
\* with a list, or throws.
SDiscogsReleases ==
    /\ spc = "dReleases"
    /\ \/ /\ \E ids \in SeqsUpTo(ReleaseIds, Budget) :
                artistReleases' = [i \in 1..Len(ids) |-> ArtistRelease(ids[i])]
          /\ spc' = "dQuery"
          /\ UNCHANGED <<generalResults, discogsResults, externalResults, sfailed>>
       \/ CatchSearch
    /\ UNCHANGED <<mbEnabled, local, mbResults>>
    /\ UNCHANGED notSearch

\* Lines 98-179: searchByQuery answers and the lists are merged, or it throws
\* (part_005 lines 96-99) and the catch block of line 172 leaves
\* externalResults empty.
SDiscogsQuery ==
    /\ spc = "dQuery"
    /\ \/ \E ids \in SeqsUpTo(ReleaseIds, Budget) :
          LET general == [i \in 1..Len(ids) |-> GeneralResult(ids[i])]
              merged == MergedDiscogs(artistReleases, general)
          IN /\ generalResults' = general
             /\ discogsResults' = merged
             /\ externalResults' = FinalMerged(mbResults, merged, local)
             /\ spc' = "done"
             /\ UNCHANGED <<artistReleases, sfailed>>
       \/ CatchSearch
    /\ UNCHANGED <<mbEnabled, local, mbResults>>
    /\ UNCHANGED notSearch

SearchNext ==
    SLocal \/ SMbArtist \/ SMbGroups \/ SDiscogsArtist \/ SDiscogsReleases
        \/ SDiscogsQuery

SearchIdle ==
    /\ spc = "idle"
    /\ mbEnabled = TRUE
    /\ local = << >>
    /\ mbResults = << >>
    /\ artistReleases = << >>
    /\ generalResults = << >>
    /\ discogsResults = << >>
    /\ externalResults = << >>
    /\ sfailed = FALSE

(***************************************************************************)
(* Album store and artwork: controllers/albumController.ts                 *)
(* (unnamed/part_008), controllers/coverArtController.ts and               *)
(* services/storage.ts                                                     *)
(***************************************************************************)

\* Requests (addAlbum, getCoverArt, fetchOfficialCoverArt) made in one run.
MaxReqs == 3

\* SQL NULL, and JavaScript's undefined.
Null == <<"null">>

Undefined == <<"undefined">>

\* The request body of addAlbum: the titles differ in case and punctuation
\* only, or are missing.
AddBodies ==
    {[artist |-> <<"a">>, album |-> << >>, coverImageUrl |-> Null, discogsId |-> 0,
      barcode |-> 1],
     [artist |-> <<"a">>, album |-> <<"b">>, coverImageUrl |-> Null, discogsId |-> 0,
      barcode |-> 1],
     [artist |-> <<"a">>, album |-> <<"b">>, coverImageUrl |-> <<"url", "discogs">>,
      discogsId |-> 1, barcode |-> 1],
     [artist |-> <<"A">>, album |-> <<"B">>, coverImageUrl |-> Null, discogsId |-> 0,
      barcode |-> 0],
     [artist |-> <<"a">>, album |-> <<"b", "!">>, coverImageUrl |-> <<"url", "discogs">>,
      discogsId |-> 0, barcode |-> 1]}

RECURSIVE LOWER(_)
\* SQL LOWER($1)
LOWER(str) ==
    IF str = << >> THEN << >> ELSE <<LowerCase(Head(str))>> \o LOWER(Tail(str))

Store == [artists |-> artists, albums |-> albums, collections |-> collections,
          barcodes |-> barcodes]

\* part_008 lines 125-141: the artist's id, the artist inserted if no name
\* matches case-insensitively.
WithArtist(st, artist) ==
    IF \E i \in 1..Len(st.artists) : LOWER(st.artists[i]) = LOWER(artist)
    THEN [st |-> st,
          artistId |-> CHOOSE i \in 1..Len(st.artists) :
                          /\ LOWER(st.artists[i]) = LOWER(artist)
                          /\ \A j \in 1..(i - 1) : LOWER(st.artists[j]) # LOWER(artist)]
    ELSE [st |-> [st EXCEPT !.artists = Append(@, artist)],
          artistId |-> Len(st.artists) + 1]

AlbumRow(artistId, body) ==
    [artist_id |-> artistId, title |-> body.album,
     cover_image_url |-> body.coverImageUrl,
     discogs_id |-> IF body.discogsId = 0 THEN Null ELSE <<"id", body.discogsId>>,
     musicbrainz_id |-> Null, local_cover_path |-> Null,
     cover_art_fetched |-> FALSE]

\* part_008 lines 144-159: the album's id, the album inserted if the artist
\* has no title matching case-insensitively; schema.sql line 20: the insert
\* fails if another album has the discogs_id.
WithAlbum(st, artistId, body) ==
    IF \E i \in 1..Len(st.albums) :
          st.albums[i].artist_id = artistId /\ LOWER(st.albums[i].title) = LOWER(body.album)
    THEN [st |-> st, error |-> FALSE,
          albumId |-> CHOOSE i \in 1..Len(st.albums) :
                         /\ st.albums[i].artist_id = artistId
                         /\ LOWER(st.albums[i].title) = LOWER(body.album)
                         /\ \A j \in 1..(i - 1) :
                               ~(st.albums[j].artist_id = artistId
                                   /\ LOWER(st.albums[j].title) = LOWER(body.album))]
    ELSE IF body.discogsId # 0
              /\ \E i \in 1..Len(st.albums) :
                    st.albums[i].discogs_id = <<"id", body.discogsId>>
    THEN [st |-> st, error |-> TRUE, albumId |-> 0]
    ELSE [st |-> [st EXCEPT !.albums = Append(@, AlbumRow(artistId, body))],
          error |-> FALSE, albumId |-> Len(st.albums) + 1]

\* part_008 lines 175-180: INSERT INTO barcodes ... ON CONFLICT DO NOTHING.
WithBarcode(st, albumId, body) ==
    IF body.barcode = 0 \/ \E p \in st.barcodes : p[1] = body.barcode
    THEN st
    ELSE [st EXCEPT !.barcodes = @ \cup {<<body.barcode, albumId>>}]

\* part_008 lines 119-182 and 218-220: the transaction of addAlbum on the
\* store st.  It commits with the album's id, or is rolled back with the
\* status of the error: 409 for a second membership of the album (schema.sql
\* line 35), 500 for any other database error.
Transaction(st, body) ==
    LET a == WithArtist(st, body.artist)
        b == WithAlbum(a.st, a.artistId, body)
    IN IF b.error
       THEN [st |-> st, status |-> 500, albumId |-> 0]
       ELSE IF b.albumId \in b.st.collections
       THEN [st |-> st, status |-> 409, albumId |-> 0]
       ELSE [st |-> WithBarcode([b.st EXCEPT !.collections = @ \cup {b.albumId}],
                                b.albumId, body),
             status |-> 201, albumId |-> b.albumId]

\* A JavaScript property read: undefined when the object has no such property.
Prop(obj, name) == IF name \in DOMAIN obj THEN obj[name] ELSE Undefined

\* null where an object is expected (a row, a provider's answer).
NoObject == [null |-> TRUE]

Truthy(v) == v # Null /\ v # Undefined

\* musicbrainz.ts lines 198-218: what searchAndGetCoverArt resolves to: null
\* (disabled, no release, or a failed search), or the release with the cover
\* URL under coverImageUrl (undefined when the archive has none).
SearchAndGetCoverArt ==
    IF ~enabled THEN {NoObject}
    ELSE {NoObject} \cup
         {[mbid |-> <<"mbid", 1>>, coverImageUrl |-> c, hasCoverArt |-> Truthy(c)] :
             c \in {Undefined, <<"url", "coverartarchive.org">>}}

\* musicbrainz.ts lines 161-193: what getCoverArt(mbid) resolves to.
GetCoverArtUrl ==
    IF ~enabled THEN {Null} ELSE {Null, <<"url", "coverartarchive.org">>}

\* storage.ts lines 36-47: the file name saveCoverArt derives from the album
\* id and the image.
FileName(albumId, url) == <<"file", albumId, url>>

\* An album row as a query returns it, or no object when no row has the id.
RowOf(id) == IF id \in 1..Len(albums) THEN albums[id] ELSE NoObject

\* UPDATE albums SET ... WHERE id = $n
Update(id, col, val) == [albums EXCEPT ![id] = [@ EXCEPT ![col] = val]]

\* What the environment answered during a request.
NoAnswers == [search |-> "unasked", cover |-> "unasked", download |-> "unasked",
              exists |-> "unasked"]

\* The response before a request, as the request's history.
NoAfter == [op |-> "none", id |-> 0, answers |-> NoAnswers, cached |-> "unasked",
            settled |-> FALSE]

NoReq == [op |-> "none", pc |-> "none", id |-> 0, row |-> NoObject,
          body |-> NoObject, answers |-> NoAnswers, cached |-> "unasked",
          task |-> 0, settled |-> FALSE, quiet |-> TRUE, after |-> NoAfter]

NoResp == [op |-> "none", id |-> 0, status |-> 0, out |-> <<"none">>,
           row |-> NoObject, body |-> NoObject, answers |-> NoAnswers,
           cached |-> "unasked", task |-> 0, settled |-> FALSE, quiet |-> TRUE,
           after |-> NoAfter]

AlbumInit ==
    /\ artists = << >>
    /\ albums = << >>
    /\ collections = {}
    /\ barcodes = {}
    /\ files = {}
    /\ req = NoReq
    /\ tasks = << >>
    /\ resp = NoResp
    /\ nreqs = 0

After == [op |-> resp.op, id |-> resp.id, answers |-> resp.answers,
          cached |-> resp.cached, settled |-> resp.settled]

\* No background task is still to write the album's row.
TaskSettled(id) == \A i \in 1..Len(tasks) :
                  tasks[i].albumId = id => tasks[i].pc \in {"done", "failed"}

\* A request as it reaches its handler.
NewReq(op, id) ==
    [NoReq EXCEPT !.op = op, !.id = id, !.row = RowOf(id), !.settled = TaskSettled(id),
                  !.after = After]

\* The response to the request r.
Reply(r, status, out) ==
    [op |-> r.op, id |-> r.id, status |-> status, out |-> out, row |-> r.row,
     body |-> r.body, answers |-> r.answers, cached |-> r.cached, task |-> r.task,
     settled |-> r.settled, quiet |-> r.quiet, after |-> r.after]

Answered(r) == /\ resp' = r
               /\ req' = NoReq


\* part_008 line 202: the background task as addAlbum starts it.
NewTask(albumId, body) ==
    [albumId |-> albumId, existingCoverUrl |-> body.coverImageUrl, pc |-> "search",
     mbAlbum |-> NoObject, download |-> "unasked"]

\* The cover is never cached by the add request itself.
CachesAtAddNever(body) == FALSE

\* part_008 line 185: if (!musicbrainzService.isEnabled() && coverImageUrl)
CachesAtAdd(body) == ~enabled /\ Truthy(body.coverImageUrl)

\* part_008 lines 112-205: addAlbum up to the first await after COMMIT.  The
\* transaction is one step: its statements see and change only rows that no
\* other statement of the program writes.
AddAlbum ==
    /\ req.op = "none"
    /\ nreqs < MaxReqs
    /\ nreqs' = nreqs + 1
    /\ \E body \in AddBodies :
       LET t == Transaction(Store, body)
           r == [NewReq("addAlbum", t.albumId) EXCEPT !.body = body, !.row = NoObject]
       IN IF body.album = << >>
          THEN /\ Answered(Reply(r, 400, <<"error", 400>>))
               /\ UNCHANGED <<artists, albums, collections, barcodes, tasks>>
          ELSE IF t.status # 201
          THEN /\ Answered(Reply(r, t.status, <<"error", t.status>>))
               /\ UNCHANGED <<artists, albums, collections, barcodes, tasks>>
          ELSE /\ artists' = t.st.artists
               /\ albums' = t.st.albums
               /\ collections' = t.st.collections
               /\ barcodes' = t.st.barcodes
               /\ UNCHANGED resp
               /\ IF CachesAtAdd(body)
                  THEN /\ req' = [r EXCEPT !.pc = "download"]
                       /\ UNCHANGED tasks
                  ELSE /\ req' = [r EXCEPT !.pc = "final", !.task = Len(tasks) + 1]
                       /\ tasks' = Append(tasks, NewTask(t.albumId, body))
    /\ UNCHANGED files
    /\ UNCHANGED notAlbum

\* part_008 lines 188-198: with the open-metadata provider disabled the cover
\* is downloaded and stored before the response; a failed download is logged.
AddDownload ==
    /\ req.op = "addAlbum"
    /\ req.pc = "download"
    /\ \E ok \in BOOLEAN :
       IF ok
       THEN /\ files' = files \cup {FileName(req.id, req.body.coverImageUrl)}
            /\ albums' = [albums EXCEPT ![req.id] =
                            [@ EXCEPT !.local_cover_path =
                                          FileName(req.id, req.body.coverImageUrl),
                                      !.cover_art_fetched = TRUE]]
            /\ req' = [req EXCEPT !.pc = "final", !.cached = "ok"]
       ELSE /\ req' = [req EXCEPT !.pc = "final", !.cached = "failed"]
            /\ UNCHANGED <<files, albums>>
    /\ UNCHANGED <<artists, collections, barcodes, tasks, resp, nreqs>>
    /\ UNCHANGED notAlbum

\* The add request is answered with an error because its task failed.
AddRespondSurfacingTask ==
    /\ req.op = "addAlbum"
    /\ req.pc = "final"
    /\ LET status == IF req.task # 0 /\ tasks[req.task].pc = "failed"
                     THEN 500 ELSE 201
       IN Answered(Reply([req EXCEPT !.row = albums[req.id]], status,
                         <<"json", status>>))
    /\ UNCHANGED <<artists, albums, collections, barcodes, files, tasks, nreqs>>
    /\ UNCHANGED notAlbum

\* part_008 lines 207-217: the album is read and the request answered 201.
AddRespond ==
    /\ req.op = "addAlbum"
    /\ req.pc = "final"
    /\ Answered(Reply([req EXCEPT !.row = albums[req.id]], 201, <<"json", 201>>))
    /\ UNCHANGED <<artists, albums, collections, barcodes, files, tasks, nreqs>>
    /\ UNCHANGED notAlbum

\* The task's first UPDATE without the mark of the attempt when the release
\* was not found.
TaskUpdateUnmarked(tbl, t, mb) ==
    IF mb # NoObject /\ Truthy(Prop(mb, "coverArtUrl"))
    THEN [tbl EXCEPT ![t.albumId] =
             [@ EXCEPT !.musicbrainz_id = mb.mbid,
                       !.cover_image_url = Prop(mb, "coverArtUrl"),
                       !.cover_art_fetched = TRUE]]
    ELSE IF mb # NoObject /\ Truthy(mb.mbid)
    THEN [tbl EXCEPT ![t.albumId] =
             [@ EXCEPT !.musicbrainz_id = mb.mbid, !.cover_art_fetched = TRUE]]
    ELSE tbl

\* part_008 lines 23-49: the UPDATE the task issues for the answer mb of
\* searchAndGetCoverArt, on the table tbl.
TaskUpdate(tbl, t, mb) ==
    IF mb # NoObject /\ Truthy(Prop(mb, "coverArtUrl"))
    THEN [tbl EXCEPT ![t.albumId] =
             [@ EXCEPT !.musicbrainz_id = mb.mbid,
                       !.cover_image_url = Prop(mb, "coverArtUrl"),
                       !.cover_art_fetched = TRUE]]
    ELSE IF mb # NoObject /\ Truthy(mb.mbid)
    THEN [tbl EXCEPT ![t.albumId] =
             [@ EXCEPT !.musicbrainz_id = mb.mbid, !.cover_art_fetched = TRUE]]
    ELSE [tbl EXCEPT ![t.albumId] = [@ EXCEPT !.cover_art_fetched = TRUE]]

\* part_008 lines 33 and 52: the task goes on to cache the existing cover.
CachesFallback(t, mb) ==
    /\ ~(mb # NoObject /\ Truthy(Prop(mb, "coverArtUrl")))
    /\ Truthy(t.existingCoverUrl)

\* part_008 lines 17-52 and 68-71: searchAndGetCoverArt answers and the task
\* writes what it learned; a database error ends the task with an exception,
\* which the catch of line 202 logs.
TaskSearch ==
    /\ \E i \in 1..Len(tasks) :
          /\ tasks[i].pc = "search"
          /\ \E mb \in SearchAndGetCoverArt : \E dbOk \in BOOLEAN :
                IF dbOk
                THEN /\ albums' = TaskUpdate(albums, tasks[i], mb)
                     /\ tasks' = [tasks EXCEPT ![i] =
                           [@ EXCEPT !.mbAlbum = mb,
                                     !.pc = IF CachesFallback(tasks[i], mb)
                                            THEN "download" ELSE "done"]]
                ELSE /\ tasks' = [tasks EXCEPT ![i] =
                           [@ EXCEPT !.mbAlbum = mb, !.pc = "failed"]]
                     /\ UNCHANGED albums
    /\ UNCHANGED <<artists, collections, barcodes, files, req, resp, nreqs>>
    /\ UNCHANGED notAlbum

\* part_008 lines 53-65: the download of the existing cover ends; the image
\* is saved and recorded, or the failure is logged.
TaskDownload ==
    /\ \E i \in 1..Len(tasks) :
          /\ tasks[i].pc = "download"
          /\ \E ok \in BOOLEAN :
                IF ok
                THEN /\ files' = files \cup
                                   {FileName(tasks[i].albumId, tasks[i].existingCoverUrl)}
                     /\ albums' = Update(tasks[i].albumId, "local_cover_path",
                                         FileName(tasks[i].albumId,
                                                  tasks[i].existingCoverUrl))
                     /\ tasks' = [tasks EXCEPT ![i] =
                                     [@ EXCEPT !.download = "ok", !.pc = "done"]]
                ELSE /\ tasks' = [tasks EXCEPT ![i] =
                                     [@ EXCEPT !.download = "failed", !.pc = "done"]]
                     /\ UNCHANGED <<files, albums>>
    /\ UNCHANGED <<artists, collections, barcodes, req, resp, nreqs>>
    /\ UNCHANGED notAlbum

\* A file disappears from the storage volume (the program deletes none)
\* while getCoverArt, the one reader of the volume, is using it; the loss is
\* noted on the request.
FileLost ==
    /\ req.op = "getCoverArt"
    /\ req.row.local_cover_path \in files
    /\ files' = files \ {req.row.local_cover_path}
    /\ req' = [req EXCEPT !.quiet = FALSE]
    /\ UNCHANGED <<artists, albums, collections, barcodes, tasks, resp, nreqs>>
    /\ UNCHANGED notAlbum

\* Album ids a request may name: every row's, and 0 for one that has no row.
RequestIds == 0..Len(albums)

\* coverArtController.ts lines 39-50 on the serving order: a stored URL before
\* the local file.
ByUrlFirst(row, localFile) ==
    IF Truthy(row.cover_image_url) THEN <<"redirect", row.cover_image_url>>
    ELSE IF localFile # Null THEN <<"send", localFile>>
    ELSE <<"error", 404>>

\* coverArtController.ts lines 27-50: the answer of getCoverArt for the row,
\* localFile being the recorded file if it exists and was read, else Null.
Serve(row, localFile) ==
    IF localFile # Null THEN <<"send", localFile>>
    ELSE IF Truthy(row.cover_image_url)
            /\ row.cover_image_url[2] = "coverartarchive.org"
    THEN <<"redirect", row.cover_image_url>>
    ELSE IF Truthy(row.cover_image_url)
    THEN <<"redirect", row.cover_image_url>>
    ELSE <<"error", 404>>

Status(out) == IF out[1] = "error" THEN out[2] ELSE IF out[1] = "redirect" THEN 302
               ELSE 200

\* coverArtController.ts lines 11-28: getCoverArt reads the row; without a
\* recorded file it answers at once.
GetCoverArt ==
    /\ req.op = "none"
    /\ nreqs < MaxReqs
    /\ nreqs' = nreqs + 1
    /\ \E id \in RequestIds :
       LET r == NewReq("getCoverArt", id)
       IN IF r.row = NoObject
          THEN Answered(Reply(r, 404, <<"error", 404>>))
          ELSE IF Truthy(r.row.local_cover_path)
          THEN /\ req' = [r EXCEPT !.pc = "exists"]
               /\ UNCHANGED resp
          ELSE Answered(Reply(r, Status(Serve(r.row, Null)), Serve(r.row, Null)))
    /\ UNCHANGED <<artists, albums, collections, barcodes, files, tasks>>
    /\ UNCHANGED notAlbum

\* coverArtController.ts lines 28-50: storageService.exists answers.
GetExists ==
    /\ req.op = "getCoverArt"
    /\ req.pc = "exists"
    /\ IF req.row.local_cover_path \in files
       THEN /\ req' = [req EXCEPT !.pc = "read", !.answers.exists = "yes"]
            /\ UNCHANGED resp
       ELSE Answered(Reply([req EXCEPT !.answers.exists = "no"],
                           Status(Serve(req.row, Null)), Serve(req.row, Null)))
    /\ UNCHANGED <<artists, albums, collections, barcodes, files, tasks, nreqs>>
    /\ UNCHANGED notAlbum

\* coverArtController.ts lines 30-35: readCoverArt answers with the bytes, or
\* throws if the file is gone since the test.
GetRead ==
    /\ req.op = "getCoverArt"
    /\ req.pc = "read"
    /\ LET out == IF req.row.local_cover_path \in files
                  THEN Serve(req.row, req.row.local_cover_path)
                  ELSE <<"error", 500>>
       IN Answered(Reply(req, Status(out), out))
    /\ UNCHANGED <<artists, albums, collections, barcodes, files, tasks, nreqs>>
    /\ UNCHANGED notAlbum

\* part_007 lines 76-81 dropped: the re-fetch never takes the row's art as
\* settled.
AlreadyOfficialNever(row) == FALSE

\* coverArtController.ts line 76: if (album.cover_art_fetched && album.cover_image_url)
AlreadyOfficial(row) == row.cover_art_fetched /\ Truthy(row.cover_image_url)

\* part_007 lines 57-81: fetchOfficialCoverArt reads the row and answers at
\* once if it is missing or already has its art.
FetchOfficialCoverArt ==
    /\ req.op = "none"
    /\ nreqs < MaxReqs
    /\ nreqs' = nreqs + 1
    /\ \E id \in RequestIds :
       LET r == NewReq("fetchOfficialCoverArt", id)
       IN IF r.row = NoObject
          THEN Answered(Reply(r, 404, <<"error", 404>>))
          ELSE IF AlreadyOfficial(r.row)
          THEN Answered(Reply(r, 200, <<"json", 200>>))
          ELSE /\ req' = [r EXCEPT !.pc = "lookup"]
               /\ UNCHANGED resp
    /\ UNCHANGED <<artists, albums, collections, barcodes, files, tasks>>
    /\ UNCHANGED notAlbum

\* part_007 lines 85-98: the object mbAlbum holds after the lookup, from the
\* stored release id and getCoverArt's answer, or from searchAndGetCoverArt's.
MbAlbumOf(row, coverArt, found) ==
    IF Truthy(row.musicbrainz_id)
    THEN IF Truthy(coverArt)
         THEN [mbid |-> row.musicbrainz_id, coverArtUrl |-> coverArt,
               hasCoverArt |-> TRUE]
         ELSE NoObject
    ELSE found

\* part_007 lines 100-114: the UPDATE of the re-fetch.
RefetchUpdate(tbl, id, mb) ==
    IF mb # NoObject /\ Truthy(Prop(mb, "coverArtUrl"))
    THEN [tbl EXCEPT ![id] =
             [@ EXCEPT !.musicbrainz_id = mb.mbid,
                       !.cover_image_url = Prop(mb, "coverArtUrl"),
                       !.cover_art_fetched = TRUE]]
    ELSE [tbl EXCEPT ![id] = [@ EXCEPT !.cover_art_fetched = TRUE]]

\* part_007 lines 109 and 117: the re-fetch goes on to cache the stored URL.
RefetchCaches(row, mb) ==
    /\ ~(mb # NoObject /\ Truthy(Prop(mb, "coverArtUrl")))
    /\ Truthy(row.cover_image_url)
    /\ ~Truthy(row.local_cover_path)

\* part_007 lines 83-117: the provider answers and the row is updated.  The
\* release is looked up by the stored id if there is one, else searched.
RefetchLookup ==
    /\ req.op = "fetchOfficialCoverArt"
    /\ req.pc = "lookup"
    /\ \E coverArt \in IF Truthy(req.row.musicbrainz_id) THEN GetCoverArtUrl
                       ELSE {Null} :
       \E found \in IF Truthy(req.row.musicbrainz_id) THEN {NoObject}
                    ELSE SearchAndGetCoverArt :
       LET mb == MbAlbumOf(req.row, coverArt, found)
           asked == IF Truthy(req.row.musicbrainz_id)
                    THEN [req.answers EXCEPT
                            !.cover = IF Truthy(coverArt) THEN "url" ELSE "null"]
                    ELSE [req.answers EXCEPT
                            !.search = IF found = NoObject THEN "null"
                                       ELSE IF found.hasCoverArt THEN "image"
                                       ELSE "noImage"]
       IN /\ albums' = RefetchUpdate(albums, req.id, mb)
          /\ req' = [req EXCEPT !.answers = asked,
                                !.pc = IF RefetchCaches(req.row, mb)
                                       THEN "download" ELSE "final"]
    /\ UNCHANGED <<artists, collections, barcodes, files, tasks, resp, nreqs>>
    /\ UNCHANGED notAlbum

\* part_007 lines 118-128: the download of the stored URL ends.
RefetchDownload ==
    /\ req.op = "fetchOfficialCoverArt"
    /\ req.pc = "download"
    /\ \E ok \in BOOLEAN :
       IF ok
       THEN /\ files' = files \cup {FileName(req.id, req.row.cover_image_url)}
            /\ albums' = Update(req.id, "local_cover_path",
                                FileName(req.id, req.row.cover_image_url))
            /\ req' = [req EXCEPT !.answers.download = "ok", !.pc = "final"]
       ELSE /\ req' = [req EXCEPT !.answers.download = "failed", !.pc = "final"]
            /\ UNCHANGED <<files, albums>>
    /\ UNCHANGED <<artists, collections, barcodes, tasks, resp, nreqs>>
    /\ UNCHANGED notAlbum

\* part_007 lines 132-147: the updated album is read and returned.
RefetchRespond ==
    /\ req.op = "fetchOfficialCoverArt"
    /\ req.pc = "final"
    /\ Answered(Reply(req, 200, <<"json", 200>>))
    /\ UNCHANGED <<artists, albums, collections, barcodes, files, tasks, nreqs>>
    /\ UNCHANGED notAlbum

AlbumNext ==
    \/ AddAlbum \/ AddDownload \/ AddRespond
    \/ TaskSearch \/ TaskDownload
    \/ GetCoverArt \/ GetExists \/ GetRead
    \/ FetchOfficialCoverArt \/ RefetchLookup \/ RefetchDownload \/ RefetchRespond
    \/ FileLost

AlbumIdle == AlbumInit

(***************************************************************************)
(* Managing the collection: deleteAlbum and getAllAlbums                   *)
(* (unnamed/part_008 lines 74-88 and 226-239) and the cover-art candidate  *)
(* search (unnamed/part_007 lines 152-201), on the tables of the album     *)
(* model                                                                   *)
(***************************************************************************)

\* Nothing is deleted.
DeleteRowsNone(coll, id) == coll

\* part_008 lines 229-232: DELETE FROM collections WHERE album_id = $1
DeleteRows(coll, id) == coll \ {id}

\* part_008 lines 226-239: deleteAlbum removes the membership of the album;
\* 404 if the DELETE returned no row.
DeleteAlbum ==
    /\ req.op = "none"
    /\ nreqs < MaxReqs
    /\ nreqs' = nreqs + 1
    /\ \E id \in RequestIds :
       LET r == NewReq("deleteAlbum", id)
       IN /\ collections' = DeleteRows(collections, id)
          /\ IF id \notin collections
             THEN Answered(Reply(r, 404, <<"error", 404>>))
             ELSE Answered(Reply(r, 200, <<"json", 200>>))
    /\ UNCHANGED <<artists, albums, barcodes, files, tasks>>
    /\ UNCHANGED notAlbum

\* part_008 lines 74-88: getAllAlbums answers with the albums that have a
\* membership row, joined with their artists.
GetAllAlbums ==
    /\ req.op = "none"
    /\ nreqs < MaxReqs
    /\ nreqs' = nreqs + 1
    /\ Answered(Reply(NewReq("getAllAlbums", 0), 200,
                      <<"albums", {id \in 1..Len(albums) : id \in collections}>>))
    /\ UNCHANGED <<artists, albums, collections, barcodes, files, tasks>>
    /\ UNCHANGED notAlbum

\* Releases and catalogue entries one provider search answers with.
MaxFound == 2

\* musicbrainz.ts line 255 (limit = 5), part_007 lines 174 and 189.
CandidateLimit == 5

NotNull(c) == c # NoObject

\* musicbrainz.ts lines 220-232 and 286-294: a release of the search, with
\* the URL getCoverArt answered for it, or null if it answered none.
WithCoverArt(k, coverUrl) ==
    IF Truthy(coverUrl)
    THEN [mbid |-> <<"mbid", k>>, album |-> <<"b">>, coverImageUrl |-> coverUrl,
          hasCoverArt |-> TRUE]
    ELSE NoObject

\* musicbrainz.ts lines 255-305: what searchReleasesWithCoverArt resolves to:
\* nothing (disabled, no release, an error), or the releases for which
\* getCoverArt answered a URL, at most limit of them.
SearchReleasesWithCoverArt ==
    IF ~enabled THEN {<< >>}
    ELSE {<< >>} \cup
         UNION {{Slice(SelectSeq([k \in 1..n |-> WithCoverArt(k, covers[k])],
                                 NotNull), CandidateLimit) :
                    covers \in [1..n -> GetCoverArtUrl]} : n \in 0..MaxFound}

\* part_005 lines 80-100 and 147-165: what searchByQuery resolves to: the
\* parsed entries, coverImageUrl undefined where the entry has no image.
DiscogsSearchByQuery ==
    UNION {[1..n -> [discogsId : {1}, album : {<<"b">>},
                     coverImageUrl : {Undefined, <<"url", "discogs">>}]] :
              n \in 0..MaxFound}

\* part_007 lines 178-184: a candidate of the open-metadata provider.
MbCandidate(r) ==
    [source |-> "MusicBrainz", url |-> Prop(r, "coverArtUrl"), title |-> r.album,
     id |-> r.mbid]

\* part_007 lines 190-196: a candidate of the catalogue provider.
DiscogsCandidate(r) ==
    [source |-> "Discogs", url |-> r.coverImageUrl, title |-> r.album,
     id |-> r.discogsId]

HasCoverImage(r) == Truthy(r.coverImageUrl)

\* part_007 lines 177-200: the candidate list built from the two answers.
Candidates(mbAnswer, discogsAnswer) ==
    [i \in 1..Len(mbAnswer) |-> MbCandidate(mbAnswer[i])]
    \o LET kept == Slice(SelectSeq(discogsAnswer, HasCoverImage), CandidateLimit)
       IN [i \in 1..Len(kept) |-> DiscogsCandidate(kept[i])]

\* part_007 lines 152-201: searchCoverArt reads the album, asks both
\* providers and answers with the candidates; 404 without the album, and the
\* error of searchByQuery (part_005 lines 96-99) fails the request.
SearchCoverArt ==
    /\ req.op = "none"
    /\ nreqs < MaxReqs
    /\ nreqs' = nreqs + 1
    /\ \E id \in RequestIds :
       LET r == NewReq("searchCoverArt", id)
       IN IF r.row = NoObject
          THEN Answered(Reply(r, 404, <<"error", 404>>))
          ELSE \E mbAnswer \in SearchReleasesWithCoverArt :
                  \/ Answered(Reply(r, 500, <<"error", 500>>))
                  \/ \E discogsAnswer \in DiscogsSearchByQuery :
                        Answered(Reply(r, 200,
                                  <<"results", Candidates(mbAnswer, discogsAnswer)>>))
    /\ UNCHANGED <<artists, albums, collections, barcodes, files, tasks>>
    /\ UNCHANGED notAlbum

ManageNext ==
    \/ AddAlbum \/ AddDownload \/ AddRespond
    \/ DeleteAlbum \/ GetAllAlbums
    \/ SearchCoverArt

(***************************************************************************)
(* Concurrent add requests: the transaction of addAlbum                    *)
(* (unnamed/part_008 lines 119-182) statement by statement, each request   *)
(* on its own connection, under PostgreSQL's default READ COMMITTED        *)
(* isolation and the constraints of db/schema.sql                          *)
(***************************************************************************)

\* Add requests that are handled concurrently in one run.
MaxConns == 2

Conns == 1..MaxConns

\* The requests name one (artist, title) pair, in either letter case.
TxBodies == {[artist |-> <<"a">>, album |-> <<"b">>],
             [artist |-> <<"a">>, album |-> <<"B">>]}

\* A row's field `by` is 0 once its insert is committed, else the connection
\* whose open transaction inserted it.
PgEmpty == [artists |-> {}, albums |-> {}, collections |-> {},
            nextArtist |-> 1, nextAlbum |-> 1]

\* The store after another album of the artist was added.
PgArtist == [artists |-> {[id |-> 1, name |-> <<"a">>, by |-> 0]},
             albums |-> {[id |-> 1, artist_id |-> 1, title |-> <<"0">>, by |-> 0]},
             collections |-> {[album_id |-> 1, by |-> 0]},
             nextArtist |-> 2, nextAlbum |-> 2]

\* The store after the pair was added and deleted (deleteAlbum removes the
\* membership only).
PgAlbum == [artists |-> {[id |-> 1, name |-> <<"a">>, by |-> 0]},
            albums |-> {[id |-> 1, artist_id |-> 1, title |-> <<"b">>, by |-> 0]},
            collections |-> {},
            nextArtist |-> 2, nextAlbum |-> 2]

IdleConn == [pc |-> "idle", body |-> NoObject, artistId |-> 0, albumId |-> 0,
             status |-> 0]

TxInit ==
    /\ pg \in {PgEmpty, PgArtist, PgAlbum}
    /\ conn = [c \in Conns |-> IdleConn]

\* READ COMMITTED: a statement of connection c sees the committed rows and
\* the rows of its own transaction.
Visible(rows, c) == {r \in rows : r.by \in {0, c}}

\* ROLLBACK: the rows of the transaction are gone (the sequences keep their
\* values).
Rollback(p, c) ==
    [p EXCEPT !.artists = {r \in @ : r.by # c},
              !.albums = {r \in @ : r.by # c},
              !.collections = {r \in @ : r.by # c}]

\* COMMIT: the rows of the transaction are visible to all.
Commit(p, c) ==
    LET seen(r) == IF r.by = c THEN [r EXCEPT !.by = 0] ELSE r
    IN [p EXCEPT !.artists = {seen(r) : r \in @},
                 !.albums = {seen(r) : r \in @},
                 !.collections = {seen(r) : r \in @}]

\* Every unique violation becomes the domain error 409.
StatusOfViolationAlways409(table) == 409

\* part_008 lines 162-172 and 218-223: a unique violation (23505) of the
\* INSERT INTO collections is rethrown as AppError 409; any other error of the
\* transaction reaches the error handler as it is (500).
StatusOfViolation(table) == IF table = "collections" THEN 409 ELSE 500

\* part_008 lines 112-119: a request arrives, its connection is taken from
\* the pool and BEGIN is sent.
TxBegin ==
    /\ \E c \in Conns : \E body \in TxBodies :
          /\ conn[c].pc = "idle"
          /\ conn' = [conn EXCEPT ![c] = [@ EXCEPT !.pc = "selectArtist",
                                                   !.body = body]]
    /\ UNCHANGED pg
    /\ UNCHANGED notTx

\* part_008 lines 122-125 and 137-139: SELECT id FROM artists WHERE
\* LOWER(name) = LOWER($1); rows[0] is any of the matching rows.
TxSelectArtist ==
    /\ \E c \in Conns :
          /\ conn[c].pc = "selectArtist"
          /\ LET found == {r \in Visible(pg.artists, c) :
                              LOWER(r.name) = LOWER(conn[c].body.artist)}
             IN IF found = {}
                THEN conn' = [conn EXCEPT ![c] = [@ EXCEPT !.pc = "insertArtist"]]
                ELSE \E r \in found :
                        conn' = [conn EXCEPT ![c] = [@ EXCEPT !.pc = "selectAlbum",
                                                              !.artistId = r.id]]
    /\ UNCHANGED pg
    /\ UNCHANGED notTx

\* part_008 lines 128-136: INSERT INTO artists (name); schema.sql lines 5-11:
\* no constraint on the name.
TxInsertArtist ==
    /\ \E c \in Conns :
          /\ conn[c].pc = "insertArtist"
          /\ pg' = [pg EXCEPT !.artists = @ \cup {[id |-> pg.nextArtist,
                                                   name |-> conn[c].body.artist,
                                                   by |-> c]},
                              !.nextArtist = @ + 1]
          /\ conn' = [conn EXCEPT ![c] = [@ EXCEPT !.pc = "selectAlbum",
                                                   !.artistId = pg.nextArtist]]
    /\ UNCHANGED notTx

\* part_008 lines 143-147 and 157-159: SELECT id FROM albums WHERE artist_id
\* = $1 AND LOWER(title) = LOWER($2).
TxSelectAlbum ==
    /\ \E c \in Conns :
          /\ conn[c].pc = "selectAlbum"
          /\ LET found == {r \in Visible(pg.albums, c) :
                              /\ r.artist_id = conn[c].artistId
                              /\ LOWER(r.title) = LOWER(conn[c].body.album)}
             IN IF found = {}
                THEN conn' = [conn EXCEPT ![c] = [@ EXCEPT !.pc = "insertAlbum"]]
                ELSE \E r \in found :
                        conn' = [conn EXCEPT ![c] = [@ EXCEPT !.pc = "insertCollection",
                                                              !.albumId = r.id]]
    /\ UNCHANGED pg
    /\ UNCHANGED notTx

\* The error of a statement: part_008 lines 218-223, ROLLBACK and rethrow.
Failed(c, table) ==
    /\ pg' = Rollback(pg, c)
    /\ conn' = [conn EXCEPT ![c] = [@ EXCEPT !.pc = "done",
                                             !.status = StatusOfViolation(table)]]

\* part_008 lines 150-156: INSERT INTO albums; schema.sql line 26:
\* UNIQUE(artist_id, title).  The insert waits while another open transaction
\* holds a row with the key, and fails if a committed row has it.
TxInsertAlbum ==
    /\ \E c \in Conns :
          /\ conn[c].pc = "insertAlbum"
          /\ LET same == {r \in pg.albums : /\ r.artist_id = conn[c].artistId
                                            /\ r.title = conn[c].body.album}
             IN /\ \A r \in same : r.by = 0
                /\ IF same # {}
                   THEN Failed(c, "albums")
                   ELSE /\ pg' = [pg EXCEPT
                                    !.albums = @ \cup {[id |-> pg.nextAlbum,
                                                        artist_id |-> conn[c].artistId,
                                                        title |-> conn[c].body.album,
                                                        by |-> c]},
                                    !.nextAlbum = @ + 1]
                        /\ conn' = [conn EXCEPT ![c] =
                                       [@ EXCEPT !.pc = "insertCollection",
                                                 !.albumId = pg.nextAlbum]]
    /\ UNCHANGED notTx

\* part_008 lines 161-172: INSERT INTO collections (album_id); schema.sql
\* line 35: UNIQUE(album_id).
TxInsertCollection ==
    /\ \E c \in Conns :
          /\ conn[c].pc = "insertCollection"
          /\ LET same == {r \in pg.collections : r.album_id = conn[c].albumId}
             IN /\ \A r \in same : r.by = 0
                /\ IF same # {}
                   THEN Failed(c, "collections")
                   ELSE /\ pg' = [pg EXCEPT !.collections =
                                     @ \cup {[album_id |-> conn[c].albumId, by |-> c]}]
                        /\ conn' = [conn EXCEPT ![c] = [@ EXCEPT !.pc = "commit"]]
    /\ UNCHANGED notTx

\* part_008 lines 182 and 207-217: COMMIT, and the request is answered 201.
TxCommit ==
    /\ \E c \in Conns :
          /\ conn[c].pc = "commit"
          /\ pg' = Commit(pg, c)
          /\ conn' = [conn EXCEPT ![c] = [@ EXCEPT !.pc = "done", !.status = 201]]
    /\ UNCHANGED notTx

TxNext ==
    \/ TxBegin \/ TxSelectArtist \/ TxInsertArtist \/ TxSelectAlbum
    \/ TxInsertAlbum \/ TxInsertCollection \/ TxCommit

TxIdle ==
    /\ pg = PgEmpty
    /\ conn = [c \in Conns |-> IdleConn]

(***************************************************************************)
(* Specifications                                                          *)
(***************************************************************************)

\* A component that takes no part in a specification stays as constructed.
RLIdle == RLInit

VisionIdle ==
    /\ vcfg = Construct("unset", FALSE, FALSE, <<"unset">>)
    /\ vpc = "idle"
    /\ vimage = None
    /\ vcalls = << >>
    /\ vreplies = << >>
    /\ vprimary = None
    /\ vout = None

ClientIdle == ClientInit /\ enabled /\ token

InitRL == RLInit /\ VisionIdle /\ ClientIdle /\ SearchIdle /\ AlbumIdle
              /\ TxIdle

SpecRL == InitRL /\ [][RLNext]_vars

\* The event loop runs every ready continuation and timer, every task settles,
\* and time passes.
FairSpecRL == SpecRL /\ WF_vars(TaskSettle) /\ WF_vars(Wake) /\ WF_vars(Tick)

InitVision == VisionInit /\ RLIdle /\ ClientIdle /\ SearchIdle /\ AlbumIdle
              /\ TxIdle

SpecVision == InitVision /\ [][VisionNext]_vars

InitClient == ClientInit /\ token /\ RLIdle /\ VisionIdle /\ SearchIdle /\ AlbumIdle
              /\ TxIdle

SpecClient == InitClient /\ [][ClientNext]_vars

\* The clients of a process started with or without DISCOGS_TOKEN.
InitCredentials == ClientInit /\ RLIdle /\ VisionIdle /\ SearchIdle /\ AlbumIdle
              /\ TxIdle

SpecCredentials == InitCredentials /\ [][ClientNext]_vars

InitSearch == SearchInit /\ RLIdle /\ VisionIdle /\ ClientIdle /\ AlbumIdle
              /\ TxIdle

SpecSearch == InitSearch /\ [][SearchNext]_vars

\* The album handlers read musicbrainzService.enabled, which is set at
\* construction.
InitAlbum == AlbumInit /\ RLIdle /\ VisionIdle /\ ClientInit /\ token /\ SearchIdle
              /\ TxIdle

SpecAlbum == InitAlbum /\ [][AlbumNext]_vars

\* The collection as its owner manages it: the artwork tasks are left aside.
SpecManage == InitAlbum /\ [][ManageNext]_vars

InitTx == TxInit /\ RLIdle /\ VisionIdle /\ ClientIdle /\ SearchIdle /\ AlbumIdle

SpecTx == InitTx /\ [][TxNext]_vars

(***************************************************************************)
(* Claims about the request throttle                                       *)
(***************************************************************************)

Resolved(t) == Settled(t) /\ promise[t][1] = "resolved"

Rejected(t) == Settled(t) /\ promise[t][1] = "rejected"

InQueue(t) == \E i \in 1..Len(queue) : queue[i] = t

\* C1: the starts of any two consecutively started tasks of one limiter are
\* at least minInterval (60000/R ms) apart, under every arrival pattern.
C1_MinSpacing == Len(started) >= 2 => lastGap >= minInterval

\* C2: tasks start in the order execute() was called, and for submissions a
\* before b, a has started and finished before b starts.
C2_Fifo ==
    /\ \A i \in 1..Len(started) : started[i] = i
    /\ \A b \in TaskIds : \A a \in 1..(b - 1) :
          (\E i \in 1..Len(started) : started[i] = b) => a \in finishedAtStart[b]

\* C2 witness: two tasks have run, the third was submitted meanwhile and waits
\* behind the inter-call sleep.
C2_Witness == Len(started) >= 2 /\ Len(queue) >= 1 /\ wpc = "sleeping"

\* C3: a task that throws rejects only its own caller's promise with its own
\* error, every settled promise carries its own task's result or error, and
\* every task queued behind a failed one is still run and settled.
C3_FailureIsolated ==
    /\ [](\A t \in TaskIds : Settled(t) =>
             /\ fnResult[t] \in {<<"ok", t>>, <<"err", t>>}
             /\ promise[t] = <<IF fnResult[t][1] = "ok" THEN "resolved"
                                                        ELSE "rejected", fnResult[t]>>)
    /\ \A t \in TaskIds : \A u \in TaskIds :
          (Rejected(t) /\ InQueue(u)) ~> Settled(u)

\* C3 witness: a task was rejected and a task submitted after it resolved.
C3_Witness ==
    \E t \in TaskIds : \E u \in TaskIds : t < u /\ Rejected(t) /\ Resolved(u)

(***************************************************************************)
(* Claims about the provider clients' cache                                *)
(***************************************************************************)

HeldEntry == cheld # Absent /\ cheld[1] = "json"

NoProviderContact == clog.executes = 0 /\ clog.transports = 0

\* C4 as stated: for every cached provider operation, when the cache holds an
\* unexpired entry for the operation's key, the call returns the cached value
\* and neither enqueues a throttle task nor invokes the provider transport.
C4_HeldEntryReturned ==
    (cpc = "done" /\ HeldEntry) =>
        cout = <<"return", cheld[2]>> /\ NoProviderContact

\* C4 amended: when the client's cache lookup yields an unexpired, parseable
\* entry for the operation's key, the call returns that entry and neither
\* enqueues a throttle task nor invokes the transport; a disabled MusicBrainz
\* client returns its empty value without reading the cache or the provider.
C4_HitSkipsProvider ==
    /\ (cpc = "done" /\ cgot # None /\ cgot # NullResult) =>
          /\ cgot = cheld[2]
          /\ cout = <<"return", cgot>>
          /\ NoProviderContact
    /\ (cpc = "done" /\ ChecksEnabled(cop) /\ ~enabled) =>
          /\ cout = <<"return", DisabledResult(cop)>>
          /\ clog.reads = 0
          /\ NoProviderContact

\* C4 witness: a second call finds the entry the first one cached and returns it.
C4_Witness ==
    /\ cpc = "done"
    /\ ncalls = 2
    /\ HeldEntry
    /\ cgot = Val(cop, carg, 1)
    /\ cout = <<"return", cgot>>

ExpectedCover(rg) ==
    IF rg.hit THEN rg.cover
    ELSE LET o == Outcome("getReleaseGroupCoverArt", carg, rg.reply)
         IN IF o[1] = "cache" THEN o[2] ELSE NullResult

\* What the method returns for the provider's replies when the cache plays no
\* part.
ExpectedOut ==
    LET o == Outcome(cop, carg, creply)
    IN IF o[1] = "cache" THEN <<"return", o[2]>>
       ELSE IF o[1] = "nested"
       THEN <<"return", Albums(carg, creply[2], ExpectedCover(crg))>>
       ELSE o

AnyCacheFailure ==
    clog.getFailed \/ clog.setFailed \/ clog.rgGetFailed \/ clog.rgSetFailed

\* C5: a failed cache read (store error or unparseable value) behaves as a
\* miss, so the provider is called; a failed write is a no-op; in both cases
\* the method returns what the provider's replies alone determine.
C5_CacheFailureAbsorbed ==
    (cpc = "done" /\ AnyCacheFailure) =>
        /\ clog.getFailed => (creply # None /\ clog.transports >= 1)
        /\ cout = ExpectedOut

\* C5 witness: the read and the write both failed and the call still returned
\* the provider's value.
C5_Witness ==
    /\ cpc = "done"
    /\ clog.getFailed
    /\ clog.setFailed
    /\ cout[1] = "return"
    /\ cout[2][1] = "val"

(***************************************************************************)
(* Claims about the vision resolution protocol                             *)
(***************************************************************************)

PrimaryX == ExtractWithProvider(vcfg.primaryProvider, vreplies[1])

FallbackX == ExtractWithProvider(vcfg.fallbackProvider, vreplies[2])

PrimaryOk == Len(vreplies) >= 1 /\ PrimaryX[1] = "ok"

PrimaryThrew == Len(vreplies) >= 1 /\ PrimaryX[1] = "throw"

HasFallback == vcfg.fallbackProvider # NoProvider

Returned == vpc = "done" /\ vout[1] = "return"

MaxOf(a, b) == IF a >= b THEN a ELSE b

\* C6: for every threshold in 0..100 and every primary confidence >= the
\* threshold, the primary result is returned at once and the fallback is
\* never invoked, with or without a fallback configured.
C6_NoFallbackAtThreshold ==
    (PrimaryOk /\ vreplies[1][1] = "json" /\ ~vcfg.minConfidenceNaN
       /\ PrimaryX[2] >= vcfg.minConfidence) =>
        /\ vpc = "done"
        /\ vout = <<"return", VResult(vcfg.primaryProvider, PrimaryX[2], FALSE, None)>>
        /\ vcalls = << <<vcfg.primaryProvider, vimage>> >>

BothSucceededAfterLow ==
    /\ vpc = "done"
    /\ HasFallback
    /\ Len(vreplies) = 2
    /\ PrimaryX[1] = "ok"
    /\ FallbackX[1] = "ok"

\* C7: primary confidence below the threshold, a fallback configured and both
\* calls succeeding: both providers were invoked on the same image, the
\* returned confidence is the maximum of the two, and a tie returns the
\* primary's result.
C7_BothInvokedMax ==
    (BothSucceededAfterLow /\ ~vcfg.minConfidenceNaN
       /\ PrimaryX[2] < vcfg.minConfidence) =>
        /\ vcalls = << <<vcfg.primaryProvider, vimage>>,
                       <<vcfg.fallbackProvider, vimage>> >>
        /\ vout[1] = "return"
        /\ vout[2].confidence = MaxOf(PrimaryX[2], FallbackX[2])
        /\ PrimaryX[2] = FallbackX[2] => vout[2].provider = vcfg.primaryProvider

\* C7 witness: both providers answered with the same confidence below the
\* threshold and the primary's result came back.
C7_Witness ==
    /\ BothSucceededAfterLow
    /\ PrimaryX[2] = FallbackX[2]
    /\ PrimaryX[2] > 0
    /\ PrimaryX[2] < vcfg.minConfidence
    /\ vout[2].provider = vcfg.primaryProvider

FallbackRanAfterLow ==
    /\ Len(vcalls) >= 2
    /\ PrimaryOk
    /\ ~vcfg.minConfidenceNaN
    /\ PrimaryX[2] < vcfg.minConfidence

OtherSummary(r) ==
    IF r.provider = vcfg.primaryProvider
    THEN [provider |-> vcfg.fallbackProvider, confidence |-> FallbackX[2]]
    ELSE [provider |-> vcfg.primaryProvider, confidence |-> PrimaryX[2]]

C9_PrimaryFailure ==
    (vpc = "done" /\ PrimaryThrew) =>
        IF HasFallback
        THEN /\ vcalls = << <<vcfg.primaryProvider, vimage>>,
                            <<vcfg.fallbackProvider, vimage>> >>
             /\ Len(vreplies) = 2
             /\ IF FallbackX[1] = "ok"
                THEN vout = <<"return",
                              VResult(vcfg.fallbackProvider, FallbackX[2], TRUE, None)>>
                ELSE vout[1] = "throw" /\ vout[2] = vcfg.fallbackProvider
        ELSE /\ vcalls = << <<vcfg.primaryProvider, vimage>> >>
             /\ vout[1] = "throw"
             /\ vout[2] = vcfg.primaryProvider

\* C9 witness: the primary's reply held no JSON, and the fallback's result
\* was returned.
C9_Witness ==
    /\ vpc = "done"
    /\ vreplies[1] = <<"noJson">>
    /\ HasFallback
    /\ vout[1] = "return"

(***************************************************************************)
(* C10                                                                     *)
(***************************************************************************)

\* The candidates in the order the handler meets them: the open-metadata
\* provider's, then the catalogue provider's artist listing, then its
\* free-text results.
CandidateStream ==
    mbResults
      \o [i \in 1..Len(artistReleases) |-> Tagged(artistReleases[i], TRUE, "discogs")]
      \o [i \in 1..Len(generalResults) |-> Tagged(generalResults[i], FALSE, "discogs")]

ExternalId(e) == IF e.source = "musicbrainz" THEN <<"mb", e.mbid>>
                                             ELSE <<"discogs", e.id>>

Duplicates(e, f) ==
    \/ PairKey(e.artist, e.album) = PairKey(f.artist, f.album)
    \/ ExternalId(e) = ExternalId(f)

SameCandidate(e, f) ==
    /\ ExternalId(e) = ExternalId(f)
    /\ e.artist = f.artist
    /\ e.album = f.album
    /\ e.isArtistMatch = f.isArtistMatch

\* C10: when search answers, no two entries of the external result list share
\* a normalized artist/title key or an external id; the list keeps the order
\* in which the candidates were met (open-metadata provider first), and when
\* the providers answered, a candidate is left out only if an earlier
\* candidate has its key or its id, so the first-seen of any duplicates stays.
C10_ExternalListDeduplicated ==
    spc = "done" =>
        /\ \A i, j \in 1..Len(externalResults) :
              i < j => /\ ~Duplicates(externalResults[i], externalResults[j])
                       /\ ~(externalResults[i].source = "discogs"
                              /\ externalResults[j].source = "musicbrainz")
        /\ ~sfailed =>
             \E f \in [1..Len(externalResults) -> 1..Len(CandidateStream)] :
                /\ \A i, j \in 1..Len(externalResults) : i < j => f[i] < f[j]
                /\ \A i \in 1..Len(externalResults) :
                      SameCandidate(externalResults[i], CandidateStream[f[i]])
                /\ \A p \in 1..Len(CandidateStream) :
                      (\A i \in 1..Len(externalResults) : f[i] # p) =>
                          \E q \in 1..(p - 1) :
                              Duplicates(CandidateStream[q], CandidateStream[p])

\* Search answered after meeting a candidate of each provider with one key
\* and a catalogue id twice under different keys, and left candidates out.
C10_Witness ==
    /\ spc = "done"
    /\ ~sfailed
    /\ \E p, q \in 1..Len(CandidateStream) :
          /\ CandidateStream[p].source = "musicbrainz"
          /\ CandidateStream[q].source = "discogs"
          /\ PairKey(CandidateStream[p].artist, CandidateStream[p].album)
               = PairKey(CandidateStream[q].artist, CandidateStream[q].album)
    /\ \E p, q \in 1..Len(CandidateStream) :
          /\ p < q
          /\ ExternalId(CandidateStream[p]) = ExternalId(CandidateStream[q])
          /\ PairKey(CandidateStream[p].artist, CandidateStream[p].album)
               # PairKey(CandidateStream[q].artist, CandidateStream[q].album)
    /\ externalResults # << >>
    /\ Len(externalResults) < Len(CandidateStream)

(***************************************************************************)
(* C11                                                                     *)
(***************************************************************************)

\* A row of the local result owns the candidate: it has the candidate's
\* normalized artist/title key, or the candidate's catalogue id.
Owns(row, e) ==
    \/ normalize(row.artist_name) = normalize(e.artist)
         /\ normalize(row.title) = normalize(e.album)
    \/ e.source = "discogs" /\ row.discogs_id # 0 /\ row.discogs_id = e.id

OwnedWith(e, wishlist) ==
    \E i \in 1..Len(local) :
        (local[i].status = "wishlist") = wishlist /\ Owns(local[i], e)

\* C11: every candidate of the merged result has inWishlist true exactly when
\* a wishlist row of the local result has its key or its external id, and
\* inCollection true exactly when a row of any other status has; an item owned
\* only in the wishlist gives inWishlist = true and inCollection = false.
C11_MembershipTags ==
    spc = "done" =>
        \A i \in 1..Len(externalResults) :
            /\ externalResults[i].inWishlist = OwnedWith(externalResults[i], TRUE)
            /\ externalResults[i].inCollection = OwnedWith(externalResults[i], FALSE)

\* A candidate owned in the wishlist only, by its catalogue id and not by its
\* key, is tagged inWishlist and not inCollection.
C11_Witness ==
    /\ spc = "done"
    /\ \E i \in 1..Len(externalResults) : \E j \in 1..Len(local) :
          /\ local[j].status = "wishlist"
          /\ local[j].discogs_id = externalResults[i].id
          /\ PairKey(local[j].artist_name, local[j].title)
               # PairKey(externalResults[i].artist, externalResults[i].album)
          /\ externalResults[i].inWishlist
          /\ ~externalResults[i].inCollection

(***************************************************************************)
(* Claims on the album store and its artwork                               *)
(***************************************************************************)

\* Every combination of the fields getCoverArt reads from a row.
StoredRows ==
    [cover_image_url : {Null, <<"url", "discogs">>, <<"url", "coverartarchive.org">>},
     local_cover_path : {Null, <<"file", 1, <<"url", "discogs">>>>}]

\* The answer for a row, the recorded file having been found on the storage
\* and read (served) or not.
ByPriority(row, served) ==
    IF served THEN <<"send", row.local_cover_path>>
    ELSE IF Truthy(row.cover_image_url) THEN <<"redirect", row.cover_image_url>>
    ELSE <<"error", 404>>

\* C12: getCoverArt answers in strict priority order: the recorded local file
\* if the storage has it, even when a URL is stored too; else a redirect to
\* the stored URL, whichever provider's; else 404, a recorded file that is
\* gone included.  For every combination of the stored fields, and for every
\* answer a request got while no file was lost under it or the storage said
\* the file was gone.
C12_ReadPriority ==
    /\ \A row \in StoredRows :
          /\ Truthy(row.local_cover_path) =>
                Serve(row, row.local_cover_path) = ByPriority(row, TRUE)
          /\ Serve(row, Null) = ByPriority(row, FALSE)
    /\ (resp.op = "getCoverArt" /\ resp.row # NoObject) =>
          /\ (resp.answers.exists = "yes" /\ resp.quiet) =>
                resp.out = ByPriority(resp.row, TRUE)
          /\ resp.answers.exists # "yes" => resp.out = ByPriority(resp.row, FALSE)

\* A request was served the local file of a row that also stores a URL.
C12_Witness ==
    /\ resp.op = "getCoverArt"
    /\ resp.row # NoObject
    /\ resp.answers.exists = "yes"
    /\ resp.quiet
    /\ Truthy(resp.row.cover_image_url)
    /\ resp.out[1] = "send"

\* A request whose recorded file was gone was redirected to the stored URL.
C12_WitnessGone ==
    /\ resp.op = "getCoverArt"
    /\ resp.row # NoObject
    /\ resp.answers.exists = "no"
    /\ resp.out[1] = "redirect"

\* The task i has just got the answer of its search and written the row.
SearchAnswered(i) ==
    /\ i \in 1..Len(tasks)
    /\ tasks[i].pc = "search"
    /\ tasks'[i].pc \in {"done", "download"}

\* C13: when the search of the background task finds the release and the
\* provider has an image for it, the task stores the release id and that
\* image URL on the album and marks the attempt (cover_art_fetched).
C13_TaskPersistsImage ==
    [][\A i \in 1..Len(tasks) :
          (SearchAnswered(i) /\ tasks'[i].mbAlbum # NoObject
              /\ tasks'[i].mbAlbum.hasCoverArt) =>
             LET row == albums'[tasks[i].albumId]
             IN /\ row.musicbrainz_id = tasks'[i].mbAlbum.mbid
                /\ row.cover_image_url = tasks'[i].mbAlbum.coverImageUrl
                /\ row.cover_art_fetched]_vars

\* A task whose search found the release with an image has written the row.
C13_Witness ==
    \E i \in 1..Len(tasks) :
       /\ tasks[i].pc \in {"done", "download"}
       /\ tasks[i].mbAlbum # NoObject
       /\ tasks[i].mbAlbum.hasCoverArt
       /\ albums[tasks[i].albumId].cover_art_fetched

\* The task i has just seen the download of the fallback image end.
DownloadEnded(i) ==
    /\ i \in 1..Len(tasks)
    /\ tasks[i].pc = "download"
    /\ tasks'[i].pc = "done"

NoImage(mb) == mb = NoObject \/ ~mb.hasCoverArt

\* C14: a background task whose search finds the release without an image,
\* or does not find it, still marks the attempt (cover_art_fetched); if the
\* album has a fallback image URL the task downloads it, and on success the
\* image is on the storage and recorded on the album; on failure the mark
\* stays and the task records no file.
C14_FallbackCached ==
    [][\A i \in 1..Len(tasks) :
          LET id == tasks[i].albumId
              file == FileName(id, tasks[i].existingCoverUrl)
          IN /\ (SearchAnswered(i) /\ NoImage(tasks'[i].mbAlbum)) =>
                   /\ albums'[id].cover_art_fetched
                   /\ Truthy(tasks[i].existingCoverUrl) => tasks'[i].pc = "download"
             /\ (DownloadEnded(i) /\ tasks'[i].download = "ok") =>
                   /\ file \in files'
                   /\ albums'[id].local_cover_path = file
                   /\ albums'[id].cover_art_fetched
             /\ (DownloadEnded(i) /\ tasks'[i].download = "failed") =>
                   /\ albums'[id].cover_art_fetched
                   /\ albums'[id].local_cover_path = albums[id].local_cover_path
                   /\ files' = files]_vars

\* A task that did not find the release has cached the fallback image.
C14_Witness ==
    \E i \in 1..Len(tasks) :
       /\ tasks[i].pc = "done"
       /\ tasks[i].mbAlbum = NoObject
       /\ tasks[i].download = "ok"
       /\ albums[tasks[i].albumId].cover_art_fetched
       /\ albums[tasks[i].albumId].local_cover_path \in files

\* A task that found the release without an image failed to download the
\* fallback image: the attempt is marked and no file is recorded.
C14_WitnessFailed ==
    \E i \in 1..Len(tasks) :
       /\ tasks[i].pc = "done"
       /\ tasks[i].mbAlbum # NoObject
       /\ ~tasks[i].mbAlbum.hasCoverArt
       /\ tasks[i].download = "failed"
       /\ albums[tasks[i].albumId].cover_art_fetched
       /\ albums[tasks[i].albumId].local_cover_path = Null

\* The add request is being answered after its cover was downloaded and saved.
AnswersCachedAdd ==
    /\ req.op = "addAlbum"
    /\ req.pc = "final"
    /\ req.cached = "ok"
    /\ resp'.op = "addAlbum"
    /\ req'.op = "none"

\* The last response is to such an add, or to a getCoverArt made right after
\* one (the request quiet: no file lost under it).
CachedAddAnswered ==
    /\ (resp.op = "addAlbum" /\ resp.status = 201 /\ ~enabled
          /\ Truthy(resp.body.coverImageUrl) /\ resp.cached # "failed") =>
          /\ resp.cached = "ok"
          /\ resp.task = 0
          /\ resp.row.local_cover_path = FileName(resp.id, resp.body.coverImageUrl)
          /\ resp.row.cover_art_fetched
          /\ \A i \in 1..Len(tasks) : tasks[i].albumId # resp.id
    /\ (resp.op = "getCoverArt" /\ resp.after.op = "addAlbum"
          /\ resp.after.cached = "ok" /\ resp.after.id = resp.id /\ resp.quiet) =>
          resp.out = <<"send", albums[resp.id].local_cover_path>>

\* C15: with the open-metadata provider disabled, an add with a cover image
\* URL whose download succeeds has the image saved and recorded on the album
\* before its response is sent, starts no search and no background task, and
\* a getCoverArt issued right after the response serves the local file.
C15_CachedBeforeResponse ==
    [][/\ CachedAddAnswered'
       /\ AnswersCachedAdd =>
             /\ albums[req.id].local_cover_path \in files
             /\ resp'.row.local_cover_path = albums[req.id].local_cover_path
             /\ tasks' = tasks]_vars

\* A getCoverArt right after such an add was served the local file.
C15_Witness ==
    /\ ~enabled
    /\ resp.op = "getCoverArt"
    /\ resp.after.op = "addAlbum"
    /\ resp.after.cached = "ok"
    /\ resp.after.id = resp.id
    /\ resp.out[1] = "send"

\* A step of the re-fetch handler itself.
RefetchStep ==
    /\ req.op = "fetchOfficialCoverArt"
    /\ req'.op = "none" \/ req'.pc # req.pc

\* The request being handled is the second of two consecutive re-fetches of
\* one album, no background task of the album being about since before the
\* first.
SecondRefetch ==
    /\ req.op = "fetchOfficialCoverArt"
    /\ req.after.op = "fetchOfficialCoverArt"
    /\ req.after.id = req.id
    /\ req.after.settled

\* The answers the environment gave the second call so far are those it
\* gave the first.
SameAnswers(second, first) ==
    \A k \in {"search", "cover", "download"} :
       second[k] = "unasked" \/ first[k] = "unasked" \/ second[k] = first[k]

\* The row has the mark of the attempt and a cover URL.
ArtRecorded(row) == row.cover_art_fetched /\ row.cover_image_url # Null

\* C16: the manual re-fetch is idempotent.  Called for an album whose
\* official art is already recorded (cover_art_fetched and a cover URL) it
\* answers 200 without a lookup, a download or a write; and the second of two
\* consecutive calls, the providers answering it as they answered the first,
\* leaves the albums and the stored files as the first left them.
C16_RefetchIdempotent ==
    [][/\ (resp'.op = "fetchOfficialCoverArt" /\ resp'.row # NoObject
             /\ ArtRecorded(resp'.row)) =>
             /\ resp'.status = 200
             /\ resp'.answers = NoAnswers
       /\ (RefetchStep /\ ArtRecorded(req.row)) =>
             /\ albums' = albums
             /\ files' = files
       /\ (RefetchStep /\ SecondRefetch /\ req'.op # "none"
             /\ SameAnswers(req'.answers, req.after.answers)) =>
             /\ albums' = albums
             /\ files' = files]_vars

\* Two consecutive re-fetches of an album were answered, the second having
\* looked the release up again.
C16_Witness ==
    /\ resp.op = "fetchOfficialCoverArt"
    /\ resp.status = 200
    /\ resp.after.op = "fetchOfficialCoverArt"
    /\ resp.after.id = resp.id
    /\ resp.after.settled
    /\ resp.answers # NoAnswers
    /\ SameAnswers(resp.answers, resp.after.answers)

\* A re-fetch of an album with its official art recorded was answered.
C16_WitnessNoOp ==
    /\ resp.op = "fetchOfficialCoverArt"
    /\ resp.row # NoObject
    /\ ArtRecorded(resp.row)
    /\ resp.status = 200

\* An add request has just reached its handler: it was refused at once, or
\* its transaction has committed.
AddStep ==
    /\ req.op = "none"
    /\ nreqs' = nreqs + 1
    /\ req'.op = "addAlbum" \/ (req'.op = "none" /\ resp'.op = "addAlbum")

AddedBody == IF req'.op = "addAlbum" THEN req'.body ELSE resp'.body

\* The (artist, title) pair of the album id, normalized as the merge engine
\* normalizes it (searchController.ts line 9).
OwnedKey(id) == PairKey(artists[albums[id].artist_id], albums[id].title)

\* The collection holds an album with the body's normalized pair.
InCollection(body) ==
    \E id \in collections : OwnedKey(id) = PairKey(body.artist, body.album)

\* C17: once a pair has been added, a second add of the same normalized
\* (artist, title) pair fails with 409 and leaves the artists, the albums, the
\* memberships and the barcodes as they were, and starts no artwork task.
C17_ReAddConflicts ==
    [][(AddStep /\ InCollection(AddedBody)) =>
          /\ req'.op = "none"
          /\ resp'.status = 409
          /\ Store' = Store
          /\ tasks' = tasks]_vars

\* A second add of a pair that differs from the first in case only was
\* refused with 409.
C17_Witness ==
    /\ resp.op = "addAlbum"
    /\ resp.status = 409
    /\ InCollection(resp.body)

\* C20: the store holds at most one owned album per (normalized artist,
\* normalized title) pair, the normalization being the merge engine's
\* (lowercase, non-alphanumerics stripped).
C20_OnePerNormalizedPair ==
    \A i, j \in collections : OwnedKey(i) = OwnedKey(j) => i = j

\* Two adds have succeeded.
C20_Witness == Cardinality(collections) >= 2

\* The task started by the add request being handled.
OwnTask == tasks[req.task]

\* An add request whose transaction committed is being answered.
AnswersAdd ==
    /\ req.op = "addAlbum"
    /\ req.pc = "final"
    /\ req'.op = "none"

\* C18: the background artwork task is started only after the transaction of
\* the add has committed and the request never waits for it: whatever the
\* task's outcome when the response is sent (finished, failed with an
\* exception, still running) the add is answered 201 with the created
\* album; the committed artist, album and membership stay; and a task that
\* failed is not run again.
C18_TaskNotAwaited ==
    [][/\ \A i \in 1..Len(tasks') :
             /\ tasks'[i].albumId \in collections'
             /\ tasks'[i].albumId \in 1..Len(albums')
             /\ albums'[tasks'[i].albumId].artist_id \in 1..Len(artists')
       /\ AnswersAdd =>
             /\ resp'.status = 201
             /\ resp'.row = albums[req.id]
             /\ Store' = Store
       /\ \A i \in 1..Len(tasks) :
             tasks[i].pc \in {"done", "failed"} => tasks'[i] = tasks[i]
       /\ Len(tasks') # Len(tasks) =>
             /\ AddStep
             /\ Len(tasks') = Len(tasks) + 1]_vars

\* An add is about to be answered and its task has already failed.
C18_WitnessFailedFirst ==
    /\ req.op = "addAlbum"
    /\ req.pc = "final"
    /\ req.task # 0
    /\ OwnTask.pc = "failed"

\* An add was answered 201 and its task has failed; the rows are there.
C18_Witness ==
    /\ resp.op = "addAlbum"
    /\ resp.status = 201
    /\ resp.task # 0
    /\ tasks[resp.task].pc = "failed"
    /\ resp.id \in collections

(***************************************************************************)
(* Claims on the providers' credentials                                    *)
(***************************************************************************)

\* The method called belongs to a client without credentials, or to a
\* disabled one.
Unavailable ==
    \/ cop \in DiscogsOps /\ ~token
    \/ ChecksEnabled(cop) /\ ~enabled

\* C19: a provider client with no configured credentials, or a disabled
\* one, never raises from a client method: each method returns an empty
\* result (an empty list or null).
C19_UnavailableIsEmpty ==
    (cpc = "done" /\ Unavailable) =>
       /\ cout[1] = "return"
       /\ cout[2] \in {NullResult, EmptyList}

\* A search of the Discogs client without a token was refused by the
\* provider and the method is done.
C19_Witness ==
    /\ cpc = "done"
    /\ ~token
    /\ cop \in {"searchByBarcode", "searchByQuery"}
    /\ creply = <<"error">>

(***************************************************************************)
(* Claims on concurrent add requests                                       *)
(***************************************************************************)

\* Every connection has answered a request, all for one (artist, title).
SamePairAnswered ==
    /\ \A c \in Conns : conn[c].pc = "done"
    /\ \A c, d \in Conns : conn[c].body = conn[d].body

\* The committed rows of the requests' pair.
PairArtists == {r \in pg.artists : r.by = 0 /\ LOWER(r.name) = LOWER(conn[1].body.artist)}

PairAlbums ==
    {r \in pg.albums : /\ r.by = 0
                       /\ LOWER(r.title) = LOWER(conn[1].body.album)
                       /\ \E a \in PairArtists : a.id = r.artist_id}

PairMemberships ==
    {r \in pg.collections : r.by = 0 /\ \E a \in PairAlbums : a.id = r.album_id}

\* C21: of concurrent add requests for one (artist, title) pair, however
\* their transactions interleave, exactly one is answered 201 and every other
\* one 409 (the domain error, no generic error), and the store ends with one
\* artist, one album and one membership for the pair.
C21_OneAddWins ==
    SamePairAnswered =>
       /\ Cardinality({c \in Conns : conn[c].status = 201}) = 1
       /\ \A c \in Conns : conn[c].status \in {201, 409}
       /\ Cardinality(PairArtists) = 1
       /\ Cardinality(PairAlbums) = 1
       /\ Cardinality(PairMemberships) = 1

\* Two requests for one pair raced on the membership insert: one was
\* answered 201, the other 409.
C21_Witness ==
    /\ SamePairAnswered
    /\ conn[1].status = 409
    /\ conn[2].status = 201
    /\ Cardinality(PairMemberships) = 1

(***************************************************************************)
(* Claims on managing the collection                                       *)
(***************************************************************************)

\* The candidates of the last answer of the cover-art candidate search.
Results == IF resp.op = "searchCoverArt" /\ resp.status = 200
           THEN resp.out[2] ELSE << >>

\* C22: every candidate the cover-art candidate search returns for an
\* existing album, from the open-metadata provider or from the catalogue
\* provider, carries a defined image URL.
C22_CandidatesHaveUrl ==
    \A i \in 1..Len(Results) : Truthy(Results[i].url)

\* A search was answered with candidates of both providers.
C22_Witness ==
    /\ \E i \in 1..Len(Results) : Results[i].source = "MusicBrainz"
    /\ \E i \in 1..Len(Results) : Results[i].source = "Discogs"

\* An add or a delete request has just reached its handler.
MembershipStep ==
    /\ req.op = "none"
    /\ nreqs' = nreqs + 1
    /\ \/ req'.op = "addAlbum"
       \/ req'.op = "none" /\ resp'.op \in {"addAlbum", "deleteAlbum"}

C24_ThrottledAndCached ==
    /\ clog.transports <= clog.executes
    /\ clog.transports > 0 => clog.reads > 0

\* A search of the open-metadata provider missed the cache and sent its one
\* request from a task of the rate limiter.
C24_Witness ==
    /\ cop = "searchRelease"
    /\ cpc = "done"
    /\ clog.reads = 1
    /\ clog.executes = 1
    /\ clog.transports = 1

(***************************************************************************)
(* Claims on the providers' calls of search                                *)
(***************************************************************************)

MbCandidatesReturned ==
    \A i \in 1..Len(mbResults) :
       \E j \in 1..Len(externalResults) :
          /\ PairKey(externalResults[j].artist, externalResults[j].album)
                = PairKey(mbResults[i].artist, mbResults[i].album)
          /\ externalResults[j].inCollection \in BOOLEAN
          /\ externalResults[j].inWishlist \in BOOLEAN

\* C30: search answers with the local matches even when a provider call
\* fails, and a failure of the catalogue provider does not discard the
\* candidates the open-metadata provider gave: the answer still holds them,
\* one per pair, tagged.
C30_FailureKeepsCandidates ==
    (spc = "done" /\ sfailed) =>
        /\ MbCandidatesReturned
        /\ \A i, j \in 1..Len(externalResults) :
              PairKey(externalResults[i].artist, externalResults[i].album)
                 = PairKey(externalResults[j].artist, externalResults[j].album)
                    => i = j

\* A call of the catalogue provider failed in a search that had a local match
\* and no open-metadata candidate; the search was answered.
C30_Witness ==
    /\ spc = "done"
    /\ sfailed
    /\ local # << >>
    /\ mbResults = << >>
    /\ externalResults = << >>

(***************************************************************************)
(* Claims on the throttle's worker                                         *)
(***************************************************************************)

\* The tasks whose fn was invoked and has not settled.
Executing == {t \in TaskIds : (\E i \in 1..Len(started) : started[i] = t)
                                 /\ fnResult[t] = None}

\* C26: at most one task of a RateLimiter is executing at any moment: a task
\* is started only while no other runs, and not during the sleep between two
\* tasks, however many callers have submitted.
C26_OneAtATime ==
    [][/\ Cardinality(Executing') <= 1
       /\ Len(started') > Len(started) =>
             /\ Executing = {}
             /\ wpc # "running"
             /\ wpc = "sleeping" => slept >= minInterval]_vars

\* A task runs while another caller's task waits in the queue, after the
\* first task and the sleep.
C26_Witness ==
    /\ Len(started) = 2
    /\ Cardinality(Executing) = 1
    /\ Len(queue) = 1
    /\ wpc = "running"

\* C27: with tasks that terminate, every submitted task starts and its
\* caller's promise settles, whenever it was submitted, and the limiter is
\* idle whenever nothing is queued or running.
C27_EveryTaskSettles ==
    /\ \A t \in TaskIds : (submitted >= t) ~> (Settled(t) /\ fnResult[t] # None)
    /\ []((queue = << >> /\ item = 0) => (~processing /\ wpc = "idle"))

\* Every task of the run has settled, the last one submitted when the worker
\* had left its loop, and the limiter is idle.
C27_Witness ==
    /\ \A t \in TaskIds : Settled(t)
    /\ finishedAtStart[MaxTasks] = 1..(MaxTasks - 1)
    /\ lastGap < minInterval
    /\ ~processing
    /\ queue = << >>

(***************************************************************************)
(* Claims on retries and errors of the vision resolution                   *)
(***************************************************************************)

InvocationsOf(provider) == {i \in 1..Len(vcalls) : vcalls[i][1] = provider}

\* C28: during one extractAlbumInfo call each vision provider is invoked at
\* most once, whatever the primary and the fallback calls come back with.
C28_EachProviderOnce ==
    \A provider \in Providers : Cardinality(InvocationsOf(provider)) <= 1

\* The primary's result was below the threshold, the fallback answered, and
\* each provider was invoked once.
C28_Witness ==
    /\ vpc = "done"
    /\ FallbackRanAfterLow
    /\ Len(vreplies) = 2
    /\ FallbackX[1] = "ok"
    /\ Cardinality(InvocationsOf(vcfg.primaryProvider)) = 1
    /\ Cardinality(InvocationsOf(vcfg.fallbackProvider)) = 1

\* Some call of the run produced a result.
SomeResult ==
    \E i \in 1..Len(vreplies) :
       ExtractWithProvider(vcalls[i][1], vreplies[i])[1] = "ok"

\* C29: extractAlbumInfo raises only when no provider produced a result; when
\* the primary returned a parseable result below the threshold and the
\* fallback call then fails, the primary's result is returned.
C29_RaisesOnlyWithoutResult ==
    vpc = "done" =>
        /\ vout[1] = "throw" => ~SomeResult
        /\ (FallbackRanAfterLow /\ FallbackX[1] = "throw") =>
              /\ vout[1] = "return"
              /\ vout[2].provider = vcfg.primaryProvider
              /\ vout[2].confidence = PrimaryX[2]

\* The primary failed, the fallback failed, and the call raised the
\* fallback's error.
C29_Witness ==
    /\ vpc = "done"
    /\ PrimaryThrew
    /\ HasFallback
    /\ Len(vreplies) = 2
    /\ FallbackX[1] = "throw"
    /\ vout[1] = "throw"

=============================================================================
